---------------------------- MODULE Spec2Model ----------------------------
(***************************************************************************)
(* Model of kraken's `ketos segtest` command (src/kraken/ketos.py) and of  *)
(* its repolygonize script (src/kraken/contrib/repolygonize.py).           *)
(*                                                                         *)
(* segtest:  the                                                           *)
(* page loop that binarizes the network's confidence maps, accumulates one *)
(* statistics record per page into the list `pages`, and the metrics and   *)
(* report computed from that list once the loop is over.                   *)
(*                                                                         *)
(* Confidences and the threshold are counted in hundredths (0.30 is 30).   *)
(* Tensors of numbers are functions: a mask is a function from the class   *)
(* row 0..C-1 to a row, a row a function from the pixel 1..n to a value.   *)
(* Floating point values are exact rationals [n, d]; d = 0 is nan (n = 0)  *)
(* or inf (n = 1).  Pixel counts are far below 2^53, so the doubles of the *)
(* code hold every sum of counts exactly.                                  *)
(*                                                                         *)
(* repolygonize:  for one document, the scan of the parsed lines, the call *)
(* of the polygonizer, the re-insertion of None for the lines that were    *)
(* passed over, and the writer that puts the polygons into the document.   *)
(* A coordinate list is a sequence of numbers; the lists of the code are   *)
(* indexed from 0, the sequences of the model from 1.                      *)
(***************************************************************************)
EXTENDS Integers, Sequences, FiniteSets, TLC

(* Bounds of the model. *)
\* Number of batches the data loader yields at most.
MaxPages == 2
\* Number of pixels the batches of one test set hold together at most; a
\* batch holds at least one.
MaxTotalPixels == 2
\* The smoothing constant is 1 / SmoothInv.  The code's constant is
\* float32's machine epsilon, 2^-23; the model takes a coarser value so that
\* sums of smoothed quotients stay inside TLC's 32 bit integers.
SmoothInv == 1024
\* Number of TextLine elements a document holds at most.
MaxLines == 3

(* Program constants (the --threshold option, in hundredths). *)
ThresholdMin == 1
ThresholdMax == 99
ThresholdDefault == 30
\* The threshold the option's help names for prediction.
ThresholdPrediction == 50

VARIABLES
    class_mapping,  \* nn.user_metadata["class_mapping"]
    threshold,      \* the --threshold option
    conf_range,     \* the confidence values the network's output takes
    test_len,       \* len(ds_loader)
    max_pixels,     \* the pixels the batches of the test set hold together
    fetched,        \* number of batches the loop has taken from ds_loader
    conf,           \* nn.nn(x) of the last batch whose forward pass returned
    y,              \* the target mask of that batch, as of line 1462
    pred,           \* the predicted mask of that batch, as of line 1461
    pages,          \* the list of page records
    batches,        \* the expected total of the progress task
    completed,      \* the completed steps of the progress task
    warnings,       \* number of logger.warning calls
    pc,             \* "start", "loop", "report", "done" or "failed"
    error,          \* the exception that ended the run, "" while none has
    metrics,        \* the tensors computed in lines 1500-1517
    out,            \* the messages written by message(), in order
    option,         \* --threshold on the command line: given or not, and its value
    partials,       \* the partial aggregates of workers folding the pages
    format_type,    \* repolygonize's --format-type: "alto" or "page"
    seg_lines,      \* seg['lines']: the baseline of each parsed line
    doc,            \* the TextLine elements of the document, in document order
    baselines,      \* the baselines handed to the polygonizer
    passed,         \* the indices (from 0) of the lines passed over
    o,              \* the polygonizer's output, then with None re-inserted
    scanned,        \* number of lines the scan of lines 125-132 has taken
    inserted,       \* number of entries of passed that line 146 has inserted
    rpc             \* "off", "scan", "insert", "write", "done" or "failed"

\* The state of the repolygonize script.
repoly == <<format_type, seg_lines, doc, baselines, passed, o, scanned,
            inserted, rpc>>

\* The state the steps of the evaluation itself leave alone.
side == <<option, partials, repoly>>

vars == <<class_mapping, threshold, conf_range, test_len, max_pixels, fetched, conf, y,
          pred, pages, batches, completed, warnings, pc, error, metrics, out, side>>

\* The option is not on the command line, or is there with the value v.
Absent == [given |-> FALSE, value |-> 0]
Given(v) == [given |-> TRUE, value |-> v]

\* Nothing outside the sequential run has started.
Idle ==
    /\ partials = {}
    /\ format_type = "alto"
    /\ seg_lines = << >>
    /\ doc = << >>
    /\ baselines = << >>
    /\ passed = << >>
    /\ o = << >>
    /\ scanned = 0
    /\ inserted = 0
    /\ rpc = "off"

----------------------------------------------------------------------------
(* Rational arithmetic standing for torch's double arithmetic. *)

RECURSIVE GCD(_, _)
GCD(a, b) == IF b = 0 THEN a ELSE GCD(b, a % b)

NaN == [n |-> 0, d |-> 0]
Inf == [n |-> 1, d |-> 0]
IsNaN(r) == r.d = 0 /\ r.n = 0
IsFinite(r) == r.d > 0

Rat(n, d) ==
    IF d = 0 THEN (IF n = 0 THEN NaN ELSE Inf)
    ELSE LET g == GCD(n, d) IN [n |-> n \div g, d |-> d \div g]

RInt(k) == [n |-> k, d |-> 1]

RAdd(a, b) ==
    IF IsNaN(a) \/ IsNaN(b) THEN NaN
    ELSE IF ~IsFinite(a) \/ ~IsFinite(b) THEN Inf
    ELSE LET g == GCD(a.d, b.d)
         IN Rat(a.n * (b.d \div g) + b.n * (a.d \div g), (a.d \div g) * b.d)

RMul(a, b) ==
    IF IsNaN(a) \/ IsNaN(b) THEN NaN
    ELSE IF ~IsFinite(a) \/ ~IsFinite(b)
         THEN (IF a.n = 0 \/ b.n = 0 THEN NaN ELSE Inf)
    ELSE Rat(a.n * b.n, a.d * b.d)

RDiv(a, b) ==
    IF IsNaN(a) \/ IsNaN(b) THEN NaN
    ELSE IF ~IsFinite(a) THEN (IF IsFinite(b) THEN Inf ELSE NaN)
    ELSE IF ~IsFinite(b) THEN RInt(0)
    ELSE Rat(a.n * b.d, a.d * b.n)

\* torch.finfo(torch.float).eps
smooth == Rat(1, SmoothInv)

\* Sum of the rationals f[i], i in the finite set S of integers.
RECURSIVE RSum(_, _)
RSum(f, S) ==
    IF S = {} THEN RInt(0)
    ELSE LET i == CHOOSE k \in S : \A j \in S : k <= j
         IN RAdd(f[i], RSum(f, S \ {i}))

\* A mean over the entries that are not zero.
RMeanOfNonZero(f) ==
    LET S == {i \in DOMAIN f : f[i] # RInt(0)}
    IN RDiv(RSum(f, S), RInt(Cardinality(S)))

\* torch.mean of a one-dimensional tensor.
RMean(f) == RDiv(RSum(f, DOMAIN f), RInt(Cardinality(DOMAIN f)))

----------------------------------------------------------------------------
(* The class mapping: category -> {class name -> index}, both dicts in     *)
(* insertion order.                                                        *)

MappingTwoBaselines ==
    << [cat |-> "baselines",
        classes |-> << [name |-> "default", idx |-> 0],
                       [name |-> "alt", idx |-> 1] >>],
       [cat |-> "regions", classes |-> << >>] >>

MappingBaselineRegion ==
    << [cat |-> "baselines",
        classes |-> << [name |-> "default", idx |-> 0] >>],
       [cat |-> "regions",
        classes |-> << [name |-> "text", idx |-> 1] >>] >>

MappingTwoRegions ==
    << [cat |-> "baselines", classes |-> << >>],
       [cat |-> "regions",
        classes |-> << [name |-> "text", idx |-> 0],
                       [name |-> "margin", idx |-> 1] >>] >>

\* A model with exactly one class.
MappingOneClass ==
    << [cat |-> "baselines",
        classes |-> << [name |-> "default", idx |-> 0] >>],
       [cat |-> "regions", classes |-> << >>] >>

ClassMappings == {MappingTwoBaselines, MappingBaselineRegion, MappingTwoRegions}

\* A mapping with a class outside the two ground-truth categories, as the
\* separator classes of line 1535's "aux".
MappingAux ==
    << [cat |-> "aux",
        classes |-> << [name |-> "_start_separator", idx |-> 0] >>],
       [cat |-> "baselines",
        classes |-> << [name |-> "default", idx |-> 1] >>],
       [cat |-> "regions", classes |-> << >>] >>

\* A mapping that lists its classes in another order than their indices.
MappingSwapped ==
    << [cat |-> "baselines", classes |-> << >>],
       [cat |-> "regions",
        classes |-> << [name |-> "text", idx |-> 1],
                       [name |-> "margin", idx |-> 0] >>] >>

\* A category of three classes.
MappingThreeRegions ==
    << [cat |-> "baselines", classes |-> << >>],
       [cat |-> "regions",
        classes |-> << [name |-> "text", idx |-> 0],
                       [name |-> "margin", idx |-> 1],
                       [name |-> "graphic", idx |-> 2] >>] >>

\* list(mapping[cat].values())
ClassIdx(mapping, cat) ==
    LET e == CHOOSE e \in {mapping[i] : i \in DOMAIN mapping} : e.cat = cat
    IN [i \in DOMAIN e.classes |-> e.classes[i].idx]

lines_idx == ClassIdx(class_mapping, "baselines")
regions_idx == ClassIdx(class_mapping, "regions")

RECURSIVE SumLen(_, _)
SumLen(mapping, k) ==
    IF k = 0 THEN 0 ELSE Len(mapping[k].classes) + SumLen(mapping, k - 1)

\* test_set.num_classes, the number of rows of the network's output
NumClasses(mapping) == SumLen(mapping, Len(mapping))

----------------------------------------------------------------------------
(* Masks. *)

Rows(m) == DOMAIN m
Width(m) == Len(m[0])

\* F.interpolate(y, size=...) in its default mode, nearest: output pixel p
\* reads the input pixel floor((p - 1) * in / out) (pixels flattened).
Interpolate(target, n) ==
    [c \in DOMAIN target |->
        [p \in 1..n |-> target[c][((p - 1) * Len(target[c])) \div n + 1]]]

\* .bool()
ToBool(target) ==
    [c \in DOMAIN target |-> [p \in DOMAIN target[c] |-> target[c][p] # 0]]

\* A threshold that is inclusive.
BinarizeAtLeast(cf, t) ==
    [c \in DOMAIN cf |-> [p \in DOMAIN cf[c] |-> cf[c][p] >= t]]

\* pred.squeeze() > threshold
Binarize(cf, t) ==
    [c \in DOMAIN cf |-> [p \in DOMAIN cf[c] |-> cf[c][p] > t]]

\* row.sum(): the number of true cells of a row
Count(row) == Cardinality({p \in DOMAIN row : row[p]})

\* Elementwise operations broadcast a row of one cell against a longer row:
\* the cell p of a row as its partner of width n reads it.
Cell(a, p) == a[IF Len(a) = 1 THEN 1 ELSE p]
BLen(a, b) == IF Len(a) >= Len(b) THEN Len(a) ELSE Len(b)

RowAnd(a, b) == [p \in 1..BLen(a, b) |-> Cell(a, p) /\ Cell(b, p)]
\* The pixels where exactly one of the two rows is true.
RowXor(a, b) == [p \in 1..BLen(a, b) |-> Cell(a, p) # Cell(b, p)]
RowOr(a, b) == [p \in 1..BLen(a, b) |-> Cell(a, p) \/ Cell(b, p)]
\* An agreement that counts only the pixels present in both masks.
RowEqPresent(a, b) == [p \in 1..BLen(a, b) |-> Cell(a, p) /\ Cell(b, p)]
RowEq(a, b) == [p \in 1..BLen(a, b) |-> Cell(a, p) = Cell(b, p)]

\* Two sizes of one dimension combine when they are equal or one of them
\* is 1 (torch's broadcasting).
DimBroadcasts(m, n) == m = n \/ m = 1 \/ n = 1

\* Two masks combine elementwise when their row counts do and their widths
\* do.
Broadcasts(a, b) ==
    /\ DimBroadcasts(Cardinality(Rows(a)), Cardinality(Rows(b)))
    /\ DimBroadcasts(Width(a), Width(b))

BRows(a, b) == IF Cardinality(Rows(a)) >= Cardinality(Rows(b)) THEN Rows(a) ELSE Rows(b)
BRow(m, c) == IF Cardinality(Rows(m)) = 1 THEN m[0] ELSE m[c]

----------------------------------------------------------------------------
(* The statistics of one page, lines 1463-1488. *)

\* The dict appended to pages in lines 1463-1469.
PageStats(yy, pp) ==
    [intersections |->
        [c \in BRows(yy, pp) |-> Count(RowAnd(BRow(yy, c), BRow(pp, c)))],
     unions |->
        [c \in BRows(yy, pp) |-> Count(RowOr(BRow(yy, c), BRow(pp, c)))],
     corrects |->
        [c \in BRows(yy, pp) |-> Count(RowEq(BRow(yy, c), BRow(pp, c)))],
     cls_cnt |-> [c \in Rows(yy) |-> Count(yy[c])],
     all_n |-> Width(yy)]

\* A reduction that keeps the first of the rows idxs only.
OrReduceFirst(m, idxs) == [p \in 1..Width(m) |-> m[idxs[1]][p]]

\* m[idxs].sum(dim=0, dtype=torch.bool): the pixelwise OR of the rows idxs
OrReduce(m, idxs) ==
    [p \in 1..Width(m) |-> \E i \in DOMAIN idxs : m[idxs[i]][p]]

\* [subline_idx for subline_idx in classes_idx if subline_idx != line_idx]
Others(classes_idx, line_idx) ==
    SelectSeq(classes_idx, LAMBDA s : s # line_idx)

\* An overlap whose every column sets the class's target against the OR of
\* the predictions of all other classes of the list.
compute_iou_overlap_of_rest(classes_idx, yy, pp) ==
    [intersections |->
        [r \in DOMAIN classes_idx |->
            [j \in 1..(Len(classes_idx) - 1) |->
                Count(RowAnd(yy[classes_idx[r]],
                             OrReduce(pp, Others(classes_idx, classes_idx[r]))))]],
     unions |->
        [r \in DOMAIN classes_idx |->
            [j \in 1..(Len(classes_idx) - 1) |->
                Count(RowOr(yy[classes_idx[r]],
                            OrReduce(pp, Others(classes_idx, classes_idx[r]))))]]]

\* _compute_iou_overlap: row r is class classes_idx[r]'s target against the
\* prediction of each other class of the list, in the list's order.
compute_iou_overlap(classes_idx, yy, pp) ==
    [intersections |->
        [r \in DOMAIN classes_idx |->
            [j \in 1..(Len(classes_idx) - 1) |->
                Count(RowAnd(yy[classes_idx[r]],
                             pp[Others(classes_idx, classes_idx[r])[j]]))]],
     unions |->
        [r \in DOMAIN classes_idx |->
            [j \in 1..(Len(classes_idx) - 1) |->
                Count(RowOr(yy[classes_idx[r]],
                            pp[Others(classes_idx, classes_idx[r])[j]]))]]]

\* The dict stored under the category's key, lines 1471-1479 and 1481-1488.
CategoryStats(idxs, yy, pp) ==
    LET y_cat == OrReduce(yy, idxs)
        pred_cat == OrReduce(pp, idxs)
        base == [intersections |-> Count(RowAnd(y_cat, pred_cat)),
                 unions |-> Count(RowOr(y_cat, pred_cat))]
    IN IF Len(idxs) > 1
       THEN base @@ ("confusion" :> compute_iou_overlap(idxs, yy, pp))
       ELSE base

\* m[idxs] raises IndexError when an index is no row of m.
IndexOK(m, idxs) == \A i \in DOMAIN idxs : idxs[i] \in Rows(m)

\* The page's dict as lines 1463-1488 leave it: a category's key is set
\* unless the category has no class or indexing its rows raised.
PageRecord(yy, pp, li, ri) ==
    LET rec0 == PageStats(yy, pp)
        okB == li = << >> \/ (IndexOK(yy, li) /\ IndexOK(pp, li))
        okR == ri = << >> \/ (IndexOK(yy, ri) /\ IndexOK(pp, ri))
        rec1 == IF li # << >> /\ okB
                THEN rec0 @@ ("baselines" :> CategoryStats(li, yy, pp))
                ELSE rec0
    IN IF okB /\ ri # << >> /\ okR
       THEN rec1 @@ ("regions" :> CategoryStats(ri, yy, pp))
       ELSE rec1

\* The exception lines 1463-1488 raise, "" when they raise none.
PageError(yy, pp, li, ri) ==
    IF ~Broadcasts(yy, pp) THEN "RuntimeError"
    ELSE IF /\ li = << >> \/ (IndexOK(yy, li) /\ IndexOK(pp, li))
            /\ ri = << >> \/ (IndexOK(yy, ri) /\ IndexOK(pp, ri))
         THEN ""
         ELSE "IndexError"

\* A loop body that keeps the new page's record only.
PageBodyOverwriting(cf, target) ==
    LET yy == ToBool(Interpolate(target, Width(cf)))
        pp == Binarize(cf, threshold)
        e == PageError(yy, pp, lines_idx, regions_idx)
    IN [y |-> yy, pred |-> pp, error |-> e,
        pages |-> IF e = "RuntimeError" THEN pages
                  ELSE << PageRecord(yy, pp, lines_idx, regions_idx) >>]

\* Lines 1459-1488 for one batch: the masks, the list of pages afterwards
\* and the exception that escaped.
PageBody(cf, target) ==
    LET yy == ToBool(Interpolate(target, Width(cf)))
        pp == Binarize(cf, threshold)
        e == PageError(yy, pp, lines_idx, regions_idx)
    IN [y |-> yy, pred |-> pp, error |-> e,
        pages |-> IF e = "RuntimeError" THEN pages
                  ELSE Append(pages, PageRecord(yy, pp, lines_idx, regions_idx))]

----------------------------------------------------------------------------
(* The batches the data loader may yield. *)

\* The confidence maps of C classes and n pixels.
ConfMaps(C, n) == [0..(C - 1) -> [1..n -> conf_range]]

\* Targets with one row per class of the model.
Targets(C, n) == [0..(C - 1) -> [1..n -> {0, 1}]]

\* Empty targets whose row count differs from the model's: one row more
\* or one row less.
MismatchedTargets(C, n) ==
    {[c \in 0..C |-> [p \in 1..n |-> 0]]}
    \cup (IF C > 1 THEN {[c \in 0..(C - 2) |-> [p \in 1..n |-> 0]]} ELSE {})

\* A sum that keeps only the last element.
SumSeqLast(s) == IF s = << >> THEN 0 ELSE s[Len(s)]

RECURSIVE SumSeq(_)
\* The sum of a sequence of numbers, first to last (tensor.sum()).
SumSeq(s) == IF s = << >> THEN 0 ELSE Head(s) + SumSeq(Tail(s))

\* The pixels of the batches taken so far; a skipped batch has one.
UsedPixels == SumSeq([i \in DOMAIN pages |-> pages[i].all_n]) + warnings

\* The pixels the next batch may hold: each later batch needs one.
PixelsLeft == max_pixels - UsedPixels - (test_len - fetched - 1)

----------------------------------------------------------------------------
(* The metrics, lines 1500-1517. *)

\* Totals that are the counts of the first page.
ClassTotalsOfFirst(ps, field) == ps[1][field]

\* torch.stack([x[field] for x in ps], -1).sum(dim=-1): one total per class
ClassTotals(ps, field) ==
    [c \in DOMAIN ps[1][field] |-> SumSeq([i \in DOMAIN ps |-> ps[i][field][c]])]

\* torch.stack([x['all_n'] for x in ps]).sum()
PixelTotal(ps) == SumSeq([i \in DOMAIN ps |-> ps[i].all_n])

\* The sum of every entry of a one-dimensional tensor.
VecSum(v) == SumSeq([k \in 1..Cardinality(DOMAIN v) |-> v[k - 1]])

\* torch.stack([x['cls_cnt'] for x in ps]).sum(): no dim is given, so the
\* sum runs over the pages and over the classes and leaves one number.
ClsCntTotal(ps) == SumSeq([i \in DOMAIN ps |-> VecSum(ps[i].cls_cnt)])

\* A quotient without the smoothing constant.
UnsmoothedIoU(i, u) == RDiv(RInt(i), RInt(u))

\* (intersections + smooth) / (unions + smooth)
SmoothedIoU(i, u) == RDiv(RAdd(RInt(i), smooth), RAdd(RInt(u), smooth))

\* torch.sum(cls_cnt / cls_cnt.sum() * class_iu.sum()): cls_cnt is the one
\* number of line 1516, so its sum is itself.
FreqIU(cls_cnt, class_iu) ==
    RMul(RDiv(RInt(cls_cnt), RInt(cls_cnt)), RSum(class_iu, DOMAIN class_iu))

\* Metrics whose pixel accuracy is the mean of the pages' own accuracies.
MetricsOfPageRatios(ps) ==
    LET corrects == ClassTotals(ps, "corrects")
        class_pixel_accuracy ==
            [c \in DOMAIN corrects |->
                RMean([i \in DOMAIN ps |->
                          RDiv(RInt(ps[i].corrects[c]), RInt(ps[i].all_n))])]
        intersections == ClassTotals(ps, "intersections")
        unions == ClassTotals(ps, "unions")
        class_iu ==
            [c \in DOMAIN intersections |->
                SmoothedIoU(intersections[c], unions[c])]
    IN [computed |-> TRUE,
        corrects |-> corrects,
        all_n |-> PixelTotal(ps),
        class_pixel_accuracy |-> class_pixel_accuracy,
        mean_accuracy |-> RMean(class_pixel_accuracy),
        intersections |-> intersections,
        unions |-> unions,
        class_iu |-> class_iu,
        mean_iu |-> RMean(class_iu),
        cls_cnt |-> ClsCntTotal(ps),
        freq_iu |-> FreqIU(ClsCntTotal(ps), class_iu)]

Metrics(ps) ==
    LET corrects == ClassTotals(ps, "corrects")
        all_n == PixelTotal(ps)
        class_pixel_accuracy ==
            [c \in DOMAIN corrects |-> RDiv(RInt(corrects[c]), RInt(all_n))]
        intersections == ClassTotals(ps, "intersections")
        unions == ClassTotals(ps, "unions")
        class_iu ==
            [c \in DOMAIN intersections |->
                SmoothedIoU(intersections[c], unions[c])]
        cls_cnt == ClsCntTotal(ps)
    IN [computed |-> TRUE,
        corrects |-> corrects,
        all_n |-> all_n,
        class_pixel_accuracy |-> class_pixel_accuracy,
        mean_accuracy |-> RMean(class_pixel_accuracy),
        intersections |-> intersections,
        unions |-> unions,
        class_iu |-> class_iu,
        mean_iu |-> RMean(class_iu),
        cls_cnt |-> cls_cnt,
        freq_iu |-> FreqIU(cls_cnt, class_iu)]

----------------------------------------------------------------------------
(* Formatting, f"{x:.3f}": the value in thousandths, rounded to nearest,   *)
(* a tie to the even thousandth.                                           *)

Text(kind, milli) == [kind |-> kind, milli |-> milli]
Blank == Text("blank", 0)

Fmt3(r) ==
    IF IsNaN(r) THEN Text("nan", 0)
    ELSE IF ~IsFinite(r) THEN Text("inf", 0)
    ELSE LET q0 == r.n \div r.d
             r0 == r.n % r.d
             d1 == (r0 * 10) \div r.d
             r1 == (r0 * 10) % r.d
             d2 == (r1 * 10) \div r.d
             r2 == (r1 * 10) % r.d
             d3 == (r2 * 10) \div r.d
             r3 == (r2 * 10) % r.d
             m == q0 * 1000 + d1 * 100 + d2 * 10 + d3
         IN Text("num", IF 2 * r3 > r.d \/ (2 * r3 = r.d /\ m % 2 = 1)
                        THEN m + 1 ELSE m)

----------------------------------------------------------------------------
(* The report, lines 1523-1606. *)

RECURSIVE Flatten(_, _)
\* [(cat, key) for (cat, subcategory) in mapping.items() for key in subcategory]
\* with each key's index, from category k on.
Flatten(mapping, k) ==
    IF k > Len(mapping) THEN << >>
    ELSE [i \in DOMAIN mapping[k].classes |->
             [cat |-> mapping[k].cat,
              name |-> mapping[k].classes[i].name,
              idx |-> mapping[k].classes[i].idx]]
         \o Flatten(mapping, k + 1)

ClassList(mapping) == Flatten(mapping, 1)

\* inv_class_names[idx]: a dict built from pairs keeps the last pair of a key
InvClassName(mapping, idx) ==
    LET l == ClassList(mapping)
        i == CHOOSE i \in DOMAIN l :
                 /\ l[i].idx = idx
                 /\ \A j \in DOMAIN l : l[j].idx = idx => j <= i
    IN l[i].name

Min(a, b) == IF a <= b THEN a ELSE b

\* The rows of the per-class table: zip() pairs the k-th class of the
\* mapping's order with the k-th entry of class_iu and class_pixel_accuracy.
ClassRows(mapping, m) ==
    LET l == ClassList(mapping)
    IN [k \in 1..Min(Len(l), Cardinality(DOMAIN m.class_iu)) |->
           [Category |-> l[k].cat,
            ClassName |-> l[k].name,
            PixelAccuracy |-> Fmt3(m.class_pixel_accuracy[k - 1]),
            IoU |-> Fmt3(m.class_iu[k - 1]),
            Support |-> IF l[k].cat # "aux" THEN "class_stats" ELSE "N/A"]]

\* torch.stack([x[category]["confusion"][field] for x in ps], dim=-1).sum(dim=-1)
OverlapTotals(ps, category, field) ==
    LET first == ps[1][category].confusion[field]
    IN [r \in DOMAIN first |->
           [j \in DOMAIN first[r] |->
               SumSeq([i \in DOMAIN ps |-> ps[i][category].confusion[field][r][j]])]]

\* x[category]["confusion"] raises KeyError for a page without that key.
HasConfusion(ps, category) ==
    \A i \in DOMAIN ps :
        /\ category \in DOMAIN ps[i]
        /\ "confusion" \in DOMAIN ps[i][category]

\* _compute_overlap_iou: the quotients.
OverlapIU(ps, category) ==
    LET ov_intersections == OverlapTotals(ps, category, "intersections")
        ov_unions == OverlapTotals(ps, category, "unions")
    IN [r \in DOMAIN ov_intersections |->
           [j \in DOMAIN ov_intersections[r] |->
               SmoothedIoU(ov_intersections[r][j], ov_unions[r][j])]]

\* A cell that shows every quotient as a number.
CellTextNeverBlank(v) == Fmt3(v)

\* f"{v:.3f}" if v != 1 else ""
CellText(v) == IF v # RInt(1) THEN Fmt3(v) ELSE Blank

\* A table whose columns are named in the reverse of the order in which the
\* pages' overlaps were accumulated.
compute_overlap_iou_reversed(mapping, ps, classes, category) ==
    LET ov_iu == OverlapIU(ps, category)
    IN [row_idx \in DOMAIN classes |->
           [Source |-> InvClassName(mapping, classes[row_idx]),
            cells |->
               [pred_idx \in DOMAIN Others(classes, classes[row_idx]) |->
                   [column |-> InvClassName(mapping,
                                   Others(classes, classes[row_idx])[Len(classes) - pred_idx]),
                    text |-> CellText(ov_iu[row_idx][pred_idx])]]]]

\* _compute_overlap_iou: the table.
compute_overlap_iou(mapping, ps, classes, category) ==
    LET ov_iu == OverlapIU(ps, category)
    IN [row_idx \in DOMAIN classes |->
           [Source |-> InvClassName(mapping, classes[row_idx]),
            cells |->
               [pred_idx \in DOMAIN Others(classes, classes[row_idx]) |->
                   [column |-> InvClassName(mapping,
                                   Others(classes, classes[row_idx])[pred_idx]),
                    text |-> CellText(ov_iu[row_idx][pred_idx])]]]]

\* The category's count of the first page alone.
CategoryTotalFirst(ps, category, field) == ps[1][category][field]

\* torch.stack([x[category][field] for x in ps]).sum()
CategoryTotal(ps, category, field) ==
    SumSeq([i \in DOMAIN ps |-> ps[i][category][field]])

CategoryIU(ps, category) ==
    SmoothedIoU(CategoryTotal(ps, category, "intersections"),
                CategoryTotal(ps, category, "unions"))

\* Lines 1575-1589: the messages of the baselines.
BaselineMessages(mapping, ps) ==
    LET li == ClassIdx(mapping, "baselines")
    IN IF li = << >> THEN << >>
       ELSE << [kind |-> "Class-independent IoU", category |-> "baselines",
                text |-> Fmt3(CategoryIU(ps, "baselines"))] >>
            \o (IF Len(li) > 1
                THEN << [kind |-> "Overlap", category |-> "baselines",
                         table |-> compute_overlap_iou(mapping, ps, li, "baselines")] >>
                ELSE << >>)

\* Line 1597 tests len(regions_idx), which every non-empty list passes.
RegionOverlapWanted(ri) == Len(ri) > 0

\* Lines 1592-1604: the messages of the regions, and whether line 1600 raised.
RegionMessages(mapping, ps) ==
    LET ri == ClassIdx(mapping, "regions")
        line == << [kind |-> "Class-independent IoU", category |-> "regions",
                    text |-> Fmt3(CategoryIU(ps, "regions"))] >>
    IN IF ri = << >> THEN [msgs |-> << >>, error |-> ""]
       ELSE IF ~RegionOverlapWanted(ri) THEN [msgs |-> line, error |-> ""]
       ELSE IF ~HasConfusion(ps, "regions") THEN [msgs |-> line, error |-> "KeyError"]
       ELSE [msgs |-> line \o << [kind |-> "Overlap", category |-> "regions",
                                  table |-> compute_overlap_iou(mapping, ps, ri, "regions")] >>,
             error |-> ""]

\* Lines 1519-1521: the three messages of the global metrics.
MetricMessages(m) ==
    << [kind |-> "Mean accuracy", text |-> Fmt3(m.mean_accuracy)],
       [kind |-> "Mean Intersection / Union", text |-> Fmt3(m.mean_iu)],
       [kind |-> "Freq Intersection / Union", text |-> Fmt3(m.freq_iu)] >>

\* Lines 1523-1606: the messages of the report in the order they are
\* printed, and the exception that ended it.
ReportOutcome(mapping, ps, m) ==
    LET b == BaselineMessages(mapping, ps)
        r == RegionMessages(mapping, ps)
    IN IF r.error # ""
       THEN [msgs |-> b \o r.msgs, error |-> r.error]
       ELSE [msgs |-> b \o r.msgs \o
                      << [kind |-> "Per category metrics",
                          table |-> ClassRows(mapping, m)] >>,
             error |-> ""]

----------------------------------------------------------------------------
(* The run. *)

Thresholds == {ThresholdMin, ThresholdMax}

\* Confidences around the threshold t: below it, equal to it, above it.
ConfLevels(t) == {t - 1, t, t + 1}

NoMetrics == [computed |-> FALSE]

Init ==
    /\ class_mapping \in ClassMappings
    /\ option = Absent
    /\ threshold = ThresholdDefault
    /\ conf_range = {threshold, threshold + 1}
    /\ max_pixels = MaxTotalPixels
    /\ test_len \in 0..Min(MaxPages, max_pixels)
    /\ fetched = 0
    /\ conf = << >>
    /\ y = << >>
    /\ pred = << >>
    /\ pages = << >>
    /\ batches = 0
    /\ completed = 0
    /\ warnings = 0
    /\ pc = "start"
    /\ error = ""
    /\ metrics = NoMetrics
    /\ out = << >>
    /\ Idle

\* Lines 1402-1403 and 1450-1452: an empty test set is a usage error,
\* otherwise the progress task is created with total = len(ds_loader).
Start ==
    /\ pc = "start"
    /\ IF test_len = 0
       THEN /\ pc' = "failed"
            /\ error' = "UsageError"
            /\ UNCHANGED batches
       ELSE /\ pc' = "loop"
            /\ batches' = test_len
            /\ UNCHANGED error
    /\ UNCHANGED <<side, class_mapping, threshold, conf_range, test_len, max_pixels, fetched, conf, y, pred, pages,
                   completed, warnings, metrics, out>>

InLoop == pc = "loop" /\ fetched < test_len

\* One iteration of the loop, lines 1453-1498, for a batch whose forward
\* pass returns conf: an exception that is neither FileNotFoundError nor
\* KrakenInputException leaves the loop and ends the run before line 1498.
PageStep(cf, target) ==
    LET r == PageBody(cf, target)
    IN /\ conf' = cf
       /\ y' = r.y
       /\ pred' = r.pred
       /\ pages' = r.pages
       /\ fetched' = fetched + 1
       /\ IF r.error = ""
          THEN /\ completed' = completed + 1
               /\ UNCHANGED <<pc, error>>
          ELSE /\ pc' = "failed"
               /\ error' = r.error
               /\ UNCHANGED completed
       /\ UNCHANGED <<side, class_mapping, threshold, conf_range, test_len, max_pixels, batches,
                      warnings, metrics, out>>

\* A page whose target has one row per class of the model.
Accumulate ==
    /\ InLoop
    /\ \E n \in 1..PixelsLeft :
         \E cf \in ConfMaps(NumClasses(class_mapping), n) :
           \E target \in Targets(NumClasses(class_mapping), n) :
             PageStep(cf, target)

\* A page, of one pixel and no confidence above the threshold, whose target
\* has another number of rows than the prediction.
ShapeMismatch ==
    /\ InLoop
    /\ \E target \in MismatchedTargets(NumClasses(class_mapping), 1) :
         PageStep([c \in 0..(NumClasses(class_mapping) - 1) |-> <<threshold>>],
                  target)

\* A handler that records the skipped page as an empty page of one pixel.
SkipFileNotFoundCounted ==
    /\ InLoop
    /\ fetched' = fetched + 1
    /\ batches' = batches - 1
    /\ warnings' = warnings + 1
    /\ completed' = completed + 1
    /\ pages' = Append(pages,
                  LET blank == [c \in 0..(NumClasses(class_mapping) - 1) |-> <<FALSE>>]
                  IN PageRecord(blank, blank, lines_idx, regions_idx))
    /\ UNCHANGED <<side, class_mapping, threshold, conf_range, test_len, max_pixels, conf, y, pred, pc,
                   error, metrics, out>>

\* Lines 1490-1493 and 1498: FileNotFoundError raised inside the try block.
SkipFileNotFound ==
    /\ InLoop
    /\ fetched' = fetched + 1
    /\ batches' = batches - 1
    /\ warnings' = warnings + 1
    /\ completed' = completed + 1
    /\ UNCHANGED <<side, class_mapping, threshold, conf_range, test_len, max_pixels, conf, y, pred, pages, pc,
                   error, metrics, out>>

\* Lines 1494-1498: KrakenInputException raised inside the try block.
SkipInputException ==
    /\ InLoop
    /\ fetched' = fetched + 1
    /\ batches' = batches - 1
    /\ warnings' = warnings + 1
    /\ completed' = completed + 1
    /\ UNCHANGED <<side, class_mapping, threshold, conf_range, test_len, max_pixels, conf, y, pred, pages, pc,
                   error, metrics, out>>

\* Metrics that report an empty table for an empty list of pages.
ComputeMetricsOfNothing ==
    /\ pc = "loop"
    /\ fetched = test_len
    /\ IF pages = << >>
       THEN /\ pc' = "done"
            /\ out' = out \o << [kind |-> "Per category metrics", table |-> << >>] >>
            /\ UNCHANGED <<metrics, error>>
       ELSE /\ pc' = "report"
            /\ metrics' = Metrics(pages)
            /\ out' = out \o MetricMessages(metrics')
            /\ UNCHANGED error
    /\ UNCHANGED <<side, class_mapping, threshold, conf_range, test_len, max_pixels, fetched, conf, y, pred, pages,
                   batches, completed, warnings>>

\* torch.stack takes tensors of one size: the pages' vectors must have the
\* same number of entries.
Stackable(ps) ==
    \A i \in DOMAIN ps :
        DOMAIN ps[i].intersections = DOMAIN ps[1].intersections

\* Lines 1500-1521.  torch.stack raises RuntimeError for an empty list and
\* for tensors of different sizes.
ComputeMetrics ==
    /\ pc = "loop"
    /\ fetched = test_len
    /\ IF pages = << >> \/ ~Stackable(pages)
       THEN /\ pc' = "failed"
            /\ error' = "RuntimeError"
            /\ UNCHANGED <<metrics, out>>
       ELSE /\ pc' = "report"
            /\ metrics' = Metrics(pages)
            /\ out' = out \o MetricMessages(metrics')
            /\ UNCHANGED error
    /\ UNCHANGED <<side, class_mapping, threshold, conf_range, test_len, max_pixels, fetched, conf, y, pred, pages,
                   batches, completed, warnings>>

\* Lines 1523-1606.
Report ==
    /\ pc = "report"
    /\ LET r == ReportOutcome(class_mapping, pages, metrics)
       IN /\ out' = out \o r.msgs
          /\ error' = r.error
          /\ pc' = IF r.error # "" THEN "failed" ELSE "done"
    /\ UNCHANGED <<side, class_mapping, threshold, conf_range, test_len, max_pixels, fetched, conf, y, pred, pages,
                   batches, completed, warnings, metrics>>

Next ==
    \/ Start
    \/ Accumulate
    \/ ShapeMismatch
    \/ SkipFileNotFound
    \/ SkipInputException
    \/ ComputeMetrics
    \/ Report

Spec == Init /\ [][Next]_vars

\* One batch, with confidences on both sides of each threshold of
\* Thresholds.
InitBinarize ==
    /\ class_mapping = MappingTwoBaselines
    /\ threshold \in Thresholds
    /\ option = Given(threshold)
    /\ conf_range = ConfLevels(threshold)
    /\ max_pixels = MaxTotalPixels
    /\ test_len = 1
    /\ fetched = 0
    /\ conf = << >>
    /\ y = << >>
    /\ pred = << >>
    /\ pages = << >>
    /\ batches = 0
    /\ completed = 0
    /\ warnings = 0
    /\ pc = "start"
    /\ error = ""
    /\ metrics = NoMetrics
    /\ out = << >>
    /\ Idle

SpecBinarize == InitBinarize /\ [][Next]_vars

\* The state before the first statement of a run with the default threshold.
Fresh ==
    /\ option = Absent
    /\ threshold = ThresholdDefault
    /\ fetched = 0
    /\ conf = << >>
    /\ y = << >>
    /\ pred = << >>
    /\ pages = << >>
    /\ batches = 0
    /\ completed = 0
    /\ warnings = 0
    /\ pc = "start"
    /\ error = ""
    /\ metrics = NoMetrics
    /\ out = << >>
    /\ Idle

\* Mappings with an "aux" category or listed out of index order.
InitLayout ==
    /\ class_mapping \in {MappingAux, MappingSwapped}
    /\ conf_range = {ThresholdDefault, ThresholdDefault + 1}
    /\ max_pixels = MaxTotalPixels
    /\ test_len \in 0..Min(MaxPages, max_pixels)
    /\ Fresh

SpecLayout == InitLayout /\ [][Next]_vars

\* A category of three classes, on a test set of a pixel less.
InitThree ==
    /\ class_mapping = MappingThreeRegions
    /\ conf_range = {ThresholdDefault, ThresholdDefault + 1}
    /\ max_pixels = MaxTotalPixels - 1
    /\ test_len \in 0..Min(MaxPages, max_pixels)
    /\ Fresh

SpecThree == InitThree /\ [][Next]_vars

\* Pages of different sizes: a pixel more, and a network whose confidences
\* are all above the threshold.
InitSizes ==
    /\ class_mapping = MappingTwoBaselines
    /\ conf_range = {ThresholdDefault + 1}
    /\ max_pixels = MaxTotalPixels + 1
    /\ test_len \in 0..Min(MaxPages, max_pixels)
    /\ Fresh

SpecSizes == InitSizes /\ [][Next]_vars


----------------------------------------------------------------------------
(* Parallel accumulation: workers that fold disjoint subsets of the pages  *)
(* of a completed run into private partial aggregates, which are then      *)
(* merged two by two.  segtest itself folds the pages in one loop; the     *)
(* workers and the merge follow the specification's description.           *)

\* The pages of the longest test set a run with workers takes.
MergePages == MaxPages + 1

\* An aggregate over no page.
ZeroAggregate ==
    LET zero == [c \in 0..(NumClasses(class_mapping) - 1) |-> 0]
    IN [intersections |-> zero, unions |-> zero, corrects |-> zero,
        cls_cnt |-> zero, all_n |-> 0]

\* Elementwise addition of two aggregates, or of an aggregate and a page's
\* record.
AddAggregate(a, b) ==
    [intersections |-> [c \in DOMAIN a.intersections |->
                           a.intersections[c] + b.intersections[c]],
     unions |-> [c \in DOMAIN a.unions |-> a.unions[c] + b.unions[c]],
     corrects |-> [c \in DOMAIN a.corrects |-> a.corrects[c] + b.corrects[c]],
     cls_cnt |-> [c \in DOMAIN a.cls_cnt |-> a.cls_cnt[c] + b.cls_cnt[c]],
     all_n |-> a.all_n + b.all_n]

\* The pages some worker has folded.  A partial aggregate is a record of
\* the pages folded into it (ids), whether a merge made it (merged) and the
\* sums (agg).
Folded == UNION {p.ids : p \in partials}

\* A new worker starts from the all-zero aggregate and folds page i.
WorkerStart ==
    /\ pc = "done"
    /\ \E i \in DOMAIN pages \ Folded :
          partials' = partials \cup
              {[ids |-> {i}, merged |-> FALSE,
                agg |-> AddAggregate(ZeroAggregate, pages[i])]}
    /\ UNCHANGED <<repoly, option, class_mapping, threshold, conf_range, test_len,
                   max_pixels, fetched, conf, y, pred, pages, batches, completed,
                   warnings, pc, error, metrics, out>>

\* A worker folds one more page into its partial aggregate.
WorkerFold ==
    /\ pc = "done"
    /\ \E p \in partials : \E i \in DOMAIN pages \ Folded :
          partials' = (partials \ {p}) \cup
              {[ids |-> p.ids \cup {i}, merged |-> p.merged,
                agg |-> AddAggregate(p.agg, pages[i])]}
    /\ UNCHANGED <<repoly, option, class_mapping, threshold, conf_range, test_len,
                   max_pixels, fetched, conf, y, pred, pages, batches, completed,
                   warnings, pc, error, metrics, out>>

\* Once every page is folded, two partial aggregates are merged into one.
Merge ==
    /\ pc = "done"
    /\ Folded = DOMAIN pages
    /\ \E p \in partials : \E q \in partials \ {p} :
          partials' = (partials \ {p, q}) \cup
              {[ids |-> p.ids \cup q.ids, merged |-> TRUE,
                agg |-> AddAggregate(p.agg, q.agg)]}
    /\ UNCHANGED <<repoly, option, class_mapping, threshold, conf_range, test_len,
                   max_pixels, fetched, conf, y, pred, pages, batches, completed,
                   warnings, pc, error, metrics, out>>

NextMerge == Next \/ WorkerStart \/ WorkerFold \/ Merge

\* Test sets of up to MergePages pages of one pixel, of a network whose
\* confidences are all above the threshold.
InitMerge ==
    /\ class_mapping = MappingTwoRegions
    /\ conf_range = {ThresholdDefault + 1}
    /\ max_pixels = MergePages
    /\ test_len \in 0..MergePages
    /\ Fresh

SpecMerge == InitMerge /\ [][NextMerge]_vars

----------------------------------------------------------------------------
(* The loop body statement by statement: the record is appended at line    *)
(* 1463 and the category statistics are stored into pages[-1] afterwards.  *)
(* pc is "baselines" before line 1470, "regions" before line 1480 and      *)
(* "advance" before line 1498.                                             *)

\* Lines 1454-1469 for a batch whose forward pass returns cf.
AppendPageOf(cf, target) ==
    LET yy == ToBool(Interpolate(target, Width(cf)))
        pp == Binarize(cf, threshold)
    IN /\ conf' = cf
       /\ y' = yy
       /\ pred' = pp
       /\ fetched' = fetched + 1
       /\ IF Broadcasts(yy, pp)
          THEN /\ pages' = Append(pages, PageStats(yy, pp))
               /\ pc' = "baselines"
               /\ UNCHANGED error
          ELSE /\ pc' = "failed"
               /\ error' = "RuntimeError"
               /\ UNCHANGED pages
       /\ UNCHANGED <<side, class_mapping, threshold, conf_range, test_len, max_pixels,
                      batches, completed, warnings, metrics, out>>

AppendPage ==
    /\ InLoop
    /\ \E n \in 1..PixelsLeft :
         \E cf \in ConfMaps(NumClasses(class_mapping), n) :
           \E target \in Targets(NumClasses(class_mapping), n) :
             AppendPageOf(cf, target)

AppendMismatched ==
    /\ InLoop
    /\ \E target \in MismatchedTargets(NumClasses(class_mapping), 1) :
         AppendPageOf([c \in 0..(NumClasses(class_mapping) - 1) |-> <<threshold>>],
                      target)

\* Lines 1470-1479 or 1480-1488: the statistics of the category are stored
\* under its key in the last record, unless the category has no class or
\* indexing its rows raises.
AddCategory(category, idxs, next) ==
    /\ IF idxs = << >>
       THEN /\ pc' = next
            /\ UNCHANGED <<pages, error>>
       ELSE IF ~(IndexOK(y, idxs) /\ IndexOK(pred, idxs))
       THEN /\ pc' = "failed"
            /\ error' = "IndexError"
            /\ UNCHANGED pages
       ELSE /\ pages' = [pages EXCEPT ![Len(pages)] =
                            @ @@ (category :> CategoryStats(idxs, y, pred))]
            /\ pc' = next
            /\ UNCHANGED error
    /\ UNCHANGED <<side, class_mapping, threshold, conf_range, test_len, max_pixels,
                   fetched, conf, y, pred, batches, completed, warnings, metrics, out>>

\* A step that stores the regions' statistics in every record of the list.
AddRegionsToAll ==
    /\ pc = "regions"
    /\ IF regions_idx = << >>
       THEN /\ pc' = "advance"
            /\ UNCHANGED <<pages, error>>
       ELSE IF ~(IndexOK(y, regions_idx) /\ IndexOK(pred, regions_idx))
       THEN /\ pc' = "failed"
            /\ error' = "IndexError"
            /\ UNCHANGED pages
       ELSE /\ pages' = [i \in DOMAIN pages |->
                            [k \in DOMAIN pages[i] \cup {"regions"} |->
                                IF k = "regions"
                                THEN CategoryStats(regions_idx, y, pred)
                                ELSE pages[i][k]]]
            /\ pc' = "advance"
            /\ UNCHANGED error
    /\ UNCHANGED <<side, class_mapping, threshold, conf_range, test_len, max_pixels,
                   fetched, conf, y, pred, batches, completed, warnings, metrics, out>>

AddBaselines == pc = "baselines" /\ AddCategory("baselines", lines_idx, "regions")

AddRegions == pc = "regions" /\ AddCategory("regions", regions_idx, "advance")

\* Line 1498 after a body that raised nothing.
Advance ==
    /\ pc = "advance"
    /\ completed' = completed + 1
    /\ pc' = "loop"
    /\ UNCHANGED <<side, class_mapping, threshold, conf_range, test_len, max_pixels,
                   fetched, conf, y, pred, pages, batches, warnings, error, metrics,
                   out>>

NextSteps ==
    \/ Start
    \/ AppendPage
    \/ AppendMismatched
    \/ AddBaselines
    \/ AddRegions
    \/ Advance
    \/ SkipFileNotFound
    \/ SkipInputException
    \/ ComputeMetrics
    \/ Report

InitSteps ==
    /\ class_mapping = MappingBaselineRegion
    /\ conf_range = {ThresholdDefault, ThresholdDefault + 1}
    /\ max_pixels = MaxTotalPixels
    /\ test_len \in 0..Min(MaxPages, max_pixels)
    /\ Fresh

SpecSteps == InitSteps /\ [][NextSteps]_vars

----------------------------------------------------------------------------
(* The --threshold option, line 1295: click.FloatRange(.01, .99) with the  *)
(* default .3.  pc is "parse", and threshold 0, before click has converted *)
(* the option.                                                             *)

\* A conversion whose default is the threshold of prediction.
ParseOptionsPrediction ==
    /\ pc = "parse"
    /\ IF ~option.given
       THEN /\ threshold' = ThresholdPrediction
            /\ pc' = "start"
            /\ UNCHANGED error
       ELSE IF option.value >= ThresholdMin /\ option.value <= ThresholdMax
       THEN /\ threshold' = option.value
            /\ pc' = "start"
            /\ UNCHANGED error
       ELSE /\ pc' = "failed"
            /\ error' = "BadParameter"
            /\ UNCHANGED threshold
    /\ UNCHANGED <<side, class_mapping, conf_range, test_len, max_pixels, fetched,
                   conf, y, pred, pages, batches, completed, warnings, metrics, out>>

\* click gives the default for an option that is absent and rejects a value
\* outside the closed range.
ParseOptions ==
    /\ pc = "parse"
    /\ IF ~option.given
       THEN /\ threshold' = ThresholdDefault
            /\ pc' = "start"
            /\ UNCHANGED error
       ELSE IF option.value >= ThresholdMin /\ option.value <= ThresholdMax
       THEN /\ threshold' = option.value
            /\ pc' = "start"
            /\ UNCHANGED error
       ELSE /\ pc' = "failed"
            /\ error' = "BadParameter"
            /\ UNCHANGED threshold
    /\ UNCHANGED <<side, class_mapping, conf_range, test_len, max_pixels, fetched,
                   conf, y, pred, pages, batches, completed, warnings, metrics, out>>

NextOption == ParseOptions \/ Next

\* The values given for --threshold: none, the ends of the range, their
\* neighbours outside it, and the thresholds of training and prediction.
Options ==
    {Absent} \cup
    {Given(v) : v \in {ThresholdMin - 1, ThresholdMin, ThresholdDefault,
                       ThresholdPrediction, ThresholdMax, ThresholdMax + 1}}

\* A network whose confidences are those two thresholds, on a test set of a
\* pixel less.
InitOption ==
    /\ option \in Options
    /\ threshold = 0
    /\ class_mapping = MappingTwoBaselines
    /\ conf_range = {ThresholdDefault, ThresholdPrediction}
    /\ max_pixels = MaxTotalPixels - 1
    /\ test_len \in 0..Min(MaxPages, max_pixels)
    /\ fetched = 0
    /\ conf = << >>
    /\ y = << >>
    /\ pred = << >>
    /\ pages = << >>
    /\ batches = 0
    /\ completed = 0
    /\ warnings = 0
    /\ pc = "parse"
    /\ error = ""
    /\ metrics = NoMetrics
    /\ out = << >>
    /\ Idle

SpecOption == InitOption /\ [][NextOption]_vars

----------------------------------------------------------------------------
(* The shape of the network's output, lines 1457-1462: a batch is an image
   of H rows and W columns, and the output has shape [1, C, H, W]. *)

\* tensor.squeeze(): every dimension of size 1 is dropped.
Squeeze(shape) == SelectSeq(shape, LAMBDA d : d # 1)

\* pred.squeeze() and pred.view(pred.size(0), -1) for the output cf of C
\* classes, given with its H * W values per class in row-major order: the
\* values keep their order in memory, the first remaining dimension
\* becomes the rows.  A tensor without dimensions has no size(0).
SqueezeView(cf, H, W) ==
    LET C == Cardinality(Rows(cf))
        dims == Squeeze(<<1, C, H, W>>)
        flat(k) == cf[(k - 1) \div (H * W)][((k - 1) % (H * W)) + 1]
    IN IF dims = << >>
       THEN [error |-> "IndexError", mask |-> << >>]
       ELSE LET R == dims[1]
                cols == (C * H * W) \div R
            IN [error |-> "",
                mask |-> [r \in 0..(R - 1) |->
                            [q \in 1..cols |-> flat(r * cols + q)]]]

\* Lines 1459-1488 for one batch of an image of H rows and W columns.  When
\* line 1461 raises, line 1462 has not run and nothing is appended.
ImageBody(cf, target, H, W) ==
    LET sv == SqueezeView(cf, H, W)
    IN IF sv.error # ""
       THEN [y |-> y, pred |-> pred, error |-> sv.error, pages |-> pages]
       ELSE LET yy == ToBool(Interpolate(target, H * W))
                pp == Binarize(sv.mask, threshold)
                e == PageError(yy, pp, lines_idx, regions_idx)
            IN [y |-> yy, pred |-> pp, error |-> e,
                pages |-> IF e = "RuntimeError" THEN pages
                          ELSE Append(pages,
                                      PageRecord(yy, pp, lines_idx, regions_idx))]

\* One iteration of the loop, lines 1453-1498, for such a batch.
ImageStep(cf, target, H, W) ==
    LET r == ImageBody(cf, target, H, W)
    IN /\ conf' = cf
       /\ y' = r.y
       /\ pred' = r.pred
       /\ pages' = r.pages
       /\ fetched' = fetched + 1
       /\ IF r.error = ""
          THEN /\ completed' = completed + 1
               /\ UNCHANGED <<pc, error>>
          ELSE /\ pc' = "failed"
               /\ error' = r.error
               /\ UNCHANGED completed
       /\ UNCHANGED <<side, class_mapping, threshold, conf_range, test_len, max_pixels, batches,
                      warnings, metrics, out>>

\* A page of any height and width whose target has one row per class of
\* the model.
AccumulateImage ==
    /\ InLoop
    /\ \E H \in 1..PixelsLeft :
         \E W \in 1..PixelsLeft :
           /\ H * W <= PixelsLeft
           /\ \E cf \in ConfMaps(NumClasses(class_mapping), H * W) :
                \E target \in Targets(NumClasses(class_mapping), H * W) :
                  ImageStep(cf, target, H, W)

NextImage ==
    \/ Start
    \/ AccumulateImage
    \/ SkipFileNotFound
    \/ SkipInputException
    \/ ComputeMetrics
    \/ Report

\* The pixels of all images of a run: enough for an image of two rows and
\* two columns.
ImagePixels == MaxTotalPixels + 2

\* Runs of a model of one class and of a model of two classes, every
\* confidence above the threshold.
InitImage ==
    /\ class_mapping \in {MappingOneClass, MappingTwoBaselines}
    /\ conf_range = {ThresholdDefault + 1}
    /\ max_pixels = ImagePixels
    /\ test_len \in 0..Min(MaxPages, max_pixels)
    /\ Fresh

SpecImage == InitImage /\ [][NextImage]_vars

----------------------------------------------------------------------------
(* repolygonize, src/kraken/contrib/repolygonize.py, for one document.  The
   files of the command line are processed one after the other and no
   iteration reads what another has written: baselines, passed and o are
   bound anew for each file. *)

\* The state of the evaluation, which the script leaves alone.
segtest == <<class_mapping, threshold, conf_range, test_len, max_pixels, fetched, conf, y,
             pred, pages, batches, completed, warnings, pc, error, metrics, out,
             option, partials>>

\* x['baseline'] of a parsed line: None or a list of coordinates.
NoBaseline == [none |-> TRUE, pts |-> << >>]
BaselineOf(p) == [none |-> FALSE, pts |-> p]

\* The baselines of the parsed lines: None, the empty list, [0, 0] and two
\* baselines that can be polygonized.
ParsedBaselines ==
    {NoBaseline, BaselineOf(<< >>), BaselineOf(<<0, 0>>),
     BaselineOf(<<1, 2>>), BaselineOf(<<3, 4>>)}

\* An entry of the list o: None or a polygon, here the boundary drawn
\* around one baseline.
None == [none |-> TRUE, around |-> << >>]
PolygonAround(bl) == [none |-> FALSE, around |-> bl]

\* The call of lines 133-144, with the polygonizer returning one polygon per
\* baseline it was handed, in their order.
calculate_polygonal_environment(bls) ==
    [k \in 1..Len(bls) |-> PolygonAround(bls[k])]

\* Line 126: bl = x['baseline'] if x['baseline'] is not None else [0, 0]
Bl(x) == IF x.none THEN <<0, 0>> ELSE x.pts

\* Lines 125-132, one line of seg['lines'].
ScanLine ==
    /\ rpc = "scan"
    /\ scanned < Len(seg_lines)
    /\ LET bl == Bl(seg_lines[scanned + 1])
       IN IF bl = <<0, 0>>
          THEN /\ passed' = Append(passed, scanned)
               /\ UNCHANGED baselines
          ELSE IF Len(bl) > 0
          THEN /\ baselines' = Append(baselines, bl)
               /\ UNCHANGED passed
          ELSE /\ passed' = Append(passed, scanned)
               /\ UNCHANGED baselines
    /\ scanned' = scanned + 1
    /\ UNCHANGED <<segtest, format_type, seg_lines, doc, o, inserted, rpc>>

\* Lines 133-144, once the scan is over.
Polygonize ==
    /\ rpc = "scan"
    /\ scanned = Len(seg_lines)
    /\ o' = calculate_polygonal_environment(baselines)
    /\ rpc' = "insert"
    /\ UNCHANGED <<segtest, format_type, seg_lines, doc, baselines, passed, scanned,
                   inserted>>

\* An insertion that puts x after the last entry, whatever the index.
InsertAtEnd(s, idx, x) == Append(s, x)

\* list.insert(idx, x) for idx >= 0: x goes before the entry at index idx
\* (from 0), or after the last entry when the list has no such entry.
InsertAt(s, idx, x) ==
    LET k == Min(idx, Len(s))
    IN SubSeq(s, 1, k) \o <<x>> \o SubSeq(s, k + 1, Len(s))

\* Lines 145-146, one entry of passed, in the list's order.
InsertNone ==
    /\ rpc = "insert"
    /\ inserted < Len(passed)
    /\ o' = InsertAt(o, passed[inserted + 1], None)
    /\ inserted' = inserted + 1
    /\ UNCHANGED <<segtest, format_type, seg_lines, doc, baselines, passed, scanned, rpc>>

\* Line 147, once every entry of passed is inserted.
AssertLength ==
    /\ rpc = "insert"
    /\ inserted = Len(passed)
    /\ rpc' = IF Len(o) = Len(seg_lines) THEN "write" ELSE "failed"
    /\ UNCHANGED <<segtest, format_type, seg_lines, doc, baselines, passed, o, scanned,
                   inserted>>

\* The value of a POINTS or points attribute: the document's own, the
\* empty string, or the coordinates of a polygon joined in the format's way.
Original == [fmt |-> "original", coords |-> << >>]
Empty == [fmt |-> "", coords |-> << >>]
Joined(fmt, polygon) == [fmt |-> fmt, coords |-> polygon.around]

\* Lines 62-74: the TextLine at index idx (from 0) of the document, which
\* is left alone without a BASELINE attribute, gets a Shape/Polygon when
\* it has none, and takes polygons[idx].
repl_alto(d, polygons) ==
    [i \in 1..Len(d) |->
        IF ~d[i].baseline THEN d[i]
        ELSE [baseline |-> TRUE,
              shape |-> TRUE,
              points |-> IF polygons[i].none THEN Empty
                         ELSE Joined("alto", polygons[i])]]

RECURSIVE repl_page_from(_, _, _, _)
\* Lines 89-104 from the TextLine at position i on, idx being the counter
\* of line 88: a line without a usable Baseline is left alone and does not
\* advance idx, every other line advances it, and takes polygons[idx] when
\* it has a Coords element.
repl_page_from(d, polygons, i, idx) ==
    IF i > Len(d) THEN << >>
    ELSE IF ~d[i].baseline
         THEN <<d[i]>> \o repl_page_from(d, polygons, i + 1, idx)
         ELSE << IF d[i].shape
                 THEN [d[i] EXCEPT !.points =
                          IF polygons[idx + 1].none THEN Empty
                          ELSE Joined("page", polygons[idx + 1])]
                 ELSE d[i] >>
              \o repl_page_from(d, polygons, i + 1, idx + 1)

\* Lines 84-106.
repl_page(d, polygons) == repl_page_from(d, polygons, 1, 0)

\* Lines 108-113.
repl_fn(d, polygons) ==
    IF format_type = "page" THEN repl_page(d, polygons) ELSE repl_alto(d, polygons)

\* Line 148.
Write ==
    /\ rpc = "write"
    /\ doc' = repl_fn(doc, o)
    /\ rpc' = "done"
    /\ UNCHANGED <<segtest, format_type, seg_lines, baselines, passed, o, scanned,
                   inserted>>

NextRepolygonize ==
    \/ ScanLine
    \/ Polygonize
    \/ InsertNone
    \/ AssertLength
    \/ Write

\* The documents of at most MaxLines lines.  The parser yields one line per
\* TextLine, with the baseline None when the element has none; an element
\* has a Shape/Polygon (ALTO) or a Coords (PageXML) child or has not.
InitRepolygonize ==
    /\ format_type \in {"alto", "page"}
    /\ seg_lines \in UNION {[1..n -> ParsedBaselines] : n \in 0..MaxLines}
    /\ doc \in {[i \in 1..Len(seg_lines) |->
                    [baseline |-> ~seg_lines[i].none,
                     shape |-> sh[i],
                     points |-> Original]] :
                sh \in [1..Len(seg_lines) -> BOOLEAN]}
    /\ baselines = << >>
    /\ passed = << >>
    /\ o = << >>
    /\ scanned = 0
    /\ inserted = 0
    /\ rpc = "scan"
    /\ class_mapping = MappingTwoBaselines
    /\ conf_range = {ThresholdDefault}
    /\ max_pixels = 0
    /\ test_len = 0
    /\ option = Absent
    /\ threshold = ThresholdDefault
    /\ fetched = 0
    /\ conf = << >>
    /\ y = << >>
    /\ pred = << >>
    /\ pages = << >>
    /\ batches = 0
    /\ completed = 0
    /\ warnings = 0
    /\ pc = "off"
    /\ error = ""
    /\ metrics = NoMetrics
    /\ out = << >>
    /\ partials = {}

SpecRepolygonize == InitRepolygonize /\ [][NextRepolygonize]_vars

----------------------------------------------------------------------------
(* Properties. *)

\* The orders a list of n pages can be accumulated in.
PageOrders(n) ==
    {f \in [1..n -> 1..n] : \A i, j \in 1..n : f[i] = f[j] => i = j}

Permuted(ps, f) == [i \in DOMAIN ps |-> ps[f[i]]]

\* The totals lines 1500-1517, 1542-1556 and 1575-1596 take of the pages ps.
Totals(ps) ==
    [intersections |-> ClassTotals(ps, "intersections"),
     unions |-> ClassTotals(ps, "unions"),
     corrects |-> ClassTotals(ps, "corrects"),
     positives |-> ClassTotals(ps, "cls_cnt"),
     cls_cnt |-> ClsCntTotal(ps),
     all_n |-> PixelTotal(ps),
     category |->
        [cat \in {k \in {"baselines", "regions"} : ClassIdx(class_mapping, k) # << >>} |->
            [f \in {"intersections", "unions"} |-> CategoryTotal(ps, cat, f)]],
     overlap |->
        [cat \in {k \in {"baselines", "regions"} : Len(ClassIdx(class_mapping, k)) > 1} |->
            [f \in {"intersections", "unions"} |-> OverlapTotals(ps, cat, f)]]]

\* C1: aggregation does not depend on the order of the pages.  Field by
\* field, the totals a run took from its page records, which its metrics
\* hold, are the ones every reordering of those records gives; so a part A
\* of the pages followed by the rest B gives what B followed by A gives.
C1_OrderIndependent ==
    pc = "report" =>
        LET totals == Totals(pages)
        IN /\ metrics.intersections = totals.intersections
           /\ metrics.unions = totals.unions
           /\ metrics.corrects = totals.corrects
           /\ metrics.cls_cnt = totals.cls_cnt
           /\ metrics.all_n = totals.all_n
           /\ \A f \in PageOrders(Len(pages)) :
                 Totals(Permuted(pages, f)) = totals

\* Two pages with different counts were aggregated and reported.
C1_Witness ==
    /\ pc = "report"
    /\ Len(pages) = 2
    /\ pages[1] # pages[2]
    /\ pages[1].intersections # pages[2].intersections
    /\ pages[1].corrects # pages[2].corrects

\* The record of the page held in conf and y, evaluated alone.
AloneRecord == PageRecord(y, Binarize(conf, threshold), lines_idx, regions_idx)

C3_ProcessedCount ==
    (pc \in {"loop", "report", "done"} /\ fetched = test_len) =>
        completed = Len(pages)

\* C4: a page whose prediction and target have different numbers of rows
\* does not end the run: it is skipped with a warning.
C4_CorruptPageSkipped ==
    (y # << >> /\ Rows(y) # Rows(pred)) => (pc # "failed" /\ warnings > 0)

\* C5: a run that accumulated no page, its test set empty or every page
\* skipped, ends in a failure; it computes no metrics and prints nothing.
C5_EmptySetIsFatal ==
    /\ pages = << >> =>
          /\ pc \in {"start", "loop", "failed"}
          /\ metrics = NoMetrics
          /\ out = << >>
    /\ Idle
    /\ (pc = "failed" /\ pages = << >>) =>
          /\ test_len = 0 => error = "UsageError"
          /\ (test_len > 0 /\ fetched = completed) =>
                error = "RuntimeError" /\ warnings = test_len

\* Every page of a non-empty test set was skipped and the run failed.
C5_Witness ==
    /\ pc = "failed"
    /\ test_len > 0
    /\ warnings = test_len
    /\ pages = << >>
    /\ out = << >>
    /\ Idle

\* The average of class_iu weighted by each class's share of the positive
\* target pixels.
FrequencyWeighted(positives, class_iu) ==
    RSum([c \in DOMAIN class_iu |->
             RMul(RDiv(RInt(positives[c]),
                       RInt(VecSum(positives))), class_iu[c])],
         DOMAIN class_iu)

\* C6: the frequency-weighted IoU is the sum over the classes of
\* positives[c] / sum(positives) * classIoU[c].
C6_FreqWeightedIoU ==
    metrics.computed =>
        metrics.freq_iu = FrequencyWeighted(ClassTotals(pages, "cls_cnt"),
                                            metrics.class_iu)

\* Every page's prediction equals its target in every class.
PerfectPrediction ==
    \A i \in DOMAIN pages : \A c \in DOMAIN pages[i].corrects :
        pages[i].corrects[c] = pages[i].all_n

\* C7: when every prediction equals its target, every class IoU, every
\* class accuracy, both means and the frequency-weighted IoU are 1.
C7_PerfectPrediction ==
    (metrics.computed /\ PerfectPrediction) =>
        /\ \A c \in DOMAIN metrics.class_iu : metrics.class_iu[c] = RInt(1)
        /\ \A c \in DOMAIN metrics.class_pixel_accuracy :
               metrics.class_pixel_accuracy[c] = RInt(1)
        /\ metrics.mean_accuracy = RInt(1)
        /\ metrics.mean_iu = RInt(1)
        /\ metrics.freq_iu = RInt(1)

\* a <= b; false when either is nan, as every comparison with nan is.
RLe(a, b) ==
    /\ ~IsNaN(a) /\ ~IsNaN(b)
    /\ IF ~IsFinite(b) THEN TRUE
       ELSE IF ~IsFinite(a) THEN FALSE
       ELSE a.n * b.d <= b.n * a.d

\* r is a number of [0, 1].
InUnit(r) == IsFinite(r) /\ RLe(RInt(0), r) /\ RLe(r, RInt(1))

\* The IoUs and accuracies other than the frequency-weighted IoU.
OtherMetricsInUnit ==
    /\ \A c \in DOMAIN metrics.class_iu : InUnit(metrics.class_iu[c])
    /\ \A c \in DOMAIN metrics.class_pixel_accuracy :
           InUnit(metrics.class_pixel_accuracy[c])
    /\ InUnit(metrics.mean_accuracy)
    /\ InUnit(metrics.mean_iu)
    /\ lines_idx # << >> => InUnit(CategoryIU(pages, "baselines"))
    /\ regions_idx # << >> => InUnit(CategoryIU(pages, "regions"))
    /\ \A cat \in {"baselines", "regions"} :
           (Len(ClassIdx(class_mapping, cat)) > 1) =>
               \A r \in DOMAIN OverlapIU(pages, cat) :
                   \A j \in DOMAIN OverlapIU(pages, cat)[r] :
                       InUnit(OverlapIU(pages, cat)[r][j])

\* C8: every IoU and every accuracy the run reports lies in [0, 1].
C8_BoundedRange ==
    metrics.computed => (OtherMetricsInUnit /\ InUnit(metrics.freq_iu))

\* C9: a pixel of a class is predicted present exactly when its confidence
\* is strictly greater than the threshold; a confidence equal to the
\* threshold is predicted absent.
C9_StrictThreshold ==
    /\ DOMAIN pred = DOMAIN conf
    /\ \A c \in DOMAIN conf :
          /\ DOMAIN pred[c] = DOMAIN conf[c]
          /\ \A p \in DOMAIN conf[c] :
                /\ conf[c][p] > threshold => pred[c][p] = TRUE
                /\ conf[c][p] = threshold => pred[c][p] = FALSE
                /\ conf[c][p] < threshold => pred[c][p] = FALSE

\* A page was binarized that has a confidence below, one equal to and one
\* above the threshold.
C9_Witness ==
    /\ Len(pages) = 1
    /\ \E c \in DOMAIN conf : \E p \in DOMAIN conf[c] : conf[c][p] = threshold
    /\ \E c \in DOMAIN conf : \E p \in DOMAIN conf[c] : conf[c][p] > threshold
    /\ \E c \in DOMAIN conf : \E p \in DOMAIN conf[c] : conf[c][p] < threshold

\* The pixels of class c where the masks t and q relate as R asks.
Pixels(c, R(_, _)) == {p \in DOMAIN y[c] : R(y[c][p], pred[c][p])}

\* C10: the record of an accumulated page holds, for every class, the
\* pixels where prediction and target are both true (intersections), where
\* either is true (unions), where they agree (corrects) and where the
\* target is true (cls_cnt), and the number of pixels of a class (all_n).
C10_PageStatistics ==
    (pages # << >> /\ completed = fetched) =>
        LET rec == pages[Len(pages)]
        IN /\ rec.all_n = Cardinality(DOMAIN y[0])
           /\ \A c \in DOMAIN y :
                 /\ rec.intersections[c] = Cardinality(Pixels(c, LAMBDA t, q : t /\ q))
                 /\ rec.unions[c] = Cardinality(Pixels(c, LAMBDA t, q : t \/ q))
                 /\ rec.corrects[c] = Cardinality(Pixels(c, LAMBDA t, q : t = q))
                 /\ rec.cls_cnt[c] = Cardinality(Pixels(c, LAMBDA t, q : t))
           /\ \A f \in {"intersections", "unions", "corrects", "cls_cnt"} :
                 DOMAIN rec[f] = DOMAIN y

\* A page of two pixels was accumulated where a class has a pixel hit, a
\* pixel missed, and another class a false alarm.
C10_Witness ==
    /\ pages # << >>
    /\ completed = fetched
    /\ pages[Len(pages)].all_n = 2
    /\ \E c \in DOMAIN y :
          /\ pages[Len(pages)].intersections[c] = 1
          /\ pages[Len(pages)].unions[c] = 2
          /\ pages[Len(pages)].cls_cnt[c] = 2
    /\ \E c \in DOMAIN y :
          /\ pages[Len(pages)].cls_cnt[c] = 0
          /\ pages[Len(pages)].unions[c] = 1
          /\ pages[Len(pages)].corrects[c] = 1

RECURSIVE SumTo(_, _)
\* s[1] + ... + s[n]
SumTo(s, n) == IF n = 0 THEN 0 ELSE SumTo(s, n - 1) + s[n]

\* The sum over the pages ps of the count F reads in a page's record.
Over(ps, F(_)) == SumTo([i \in DOMAIN ps |-> F(ps[i])], Len(ps))

\* (i + 1 / SmoothInv) / (u + 1 / SmoothInv)
Smoothed(i, u) == Rat(i * SmoothInv + 1, u * SmoothInv + 1)

\* C11: the IoU of class c is (I + eps) / (U + eps), eps > 0, for the sums
\* I and U of the pages' intersections and unions of c.  It is a number for
\* every class: 1 for a class with no target and no predicted pixel, and
\* eps / (U + eps) for a class whose prediction and target never overlap.
C11_SmoothedClassIoU ==
    metrics.computed =>
        /\ smooth.n > 0 /\ IsFinite(smooth)
        /\ \A c \in DOMAIN metrics.class_iu :
              LET I == Over(pages, LAMBDA r : r.intersections[c])
                  U == Over(pages, LAMBDA r : r.unions[c])
              IN /\ IsFinite(metrics.class_iu[c])
                 /\ metrics.class_iu[c] = Smoothed(I, U)
                 /\ U = 0 => metrics.class_iu[c] = RInt(1)
                 /\ (I = 0 /\ U > 0) =>
                       metrics.class_iu[c] = Rat(1, U * SmoothInv + 1)

\* A run ended whose pages leave one class without any pixel and another
\* with target and prediction that never overlap.
C11_Witness ==
    /\ pc = "done"
    /\ Len(pages) = 2
    /\ \E c \in DOMAIN metrics.class_iu : metrics.unions[c] = 0
    /\ \E c \in DOMAIN metrics.class_iu :
          /\ metrics.intersections[c] = 0
          /\ metrics.unions[c] = 2
          /\ metrics.cls_cnt > 0

\* C12: the pixel accuracy of class c is the sum of the pages' correct
\* pixels of c over the sum of the pages' pixels, which is positive; it is
\* no mean of the pages' own accuracies.
C12_AccuracyFromTotals ==
    metrics.computed =>
        /\ Over(pages, LAMBDA r : r.all_n) > 0
        /\ \A c \in DOMAIN metrics.class_pixel_accuracy :
              metrics.class_pixel_accuracy[c]
                 = Rat(Over(pages, LAMBDA r : r.corrects[c]),
                       Over(pages, LAMBDA r : r.all_n))

\* A run ended over two pages of different sizes, for which the mean of the
\* two accuracies of a class is not the accuracy of the class.
C12_Witness ==
    /\ pc = "done"
    /\ Len(pages) = 2
    /\ pages[1].all_n # pages[2].all_n
    /\ \E c \in DOMAIN metrics.class_pixel_accuracy :
          metrics.class_pixel_accuracy[c]
             # RDiv(RAdd(Rat(pages[1].corrects[c], pages[1].all_n),
                         Rat(pages[2].corrects[c], pages[2].all_n)), RInt(2))

RECURSIVE RSumTo(_, _)
\* f[0] + ... + f[n]
RSumTo(f, n) == IF n < 0 THEN RInt(0) ELSE RAdd(RSumTo(f, n - 1), f[n])

\* C13: the mean accuracy and the mean IoU are the sums of the classes'
\* accuracies and IoUs divided by the number of classes: every class of the
\* model weighs the same, whatever its pixels.
C13_MacroAverages ==
    metrics.computed =>
        LET C == NumClasses(class_mapping)
        IN /\ DOMAIN metrics.class_pixel_accuracy = 0..(C - 1)
           /\ DOMAIN metrics.class_iu = 0..(C - 1)
           /\ metrics.mean_accuracy
                 = RDiv(RSumTo(metrics.class_pixel_accuracy, C - 1), RInt(C))
           /\ metrics.mean_iu = RDiv(RSumTo(metrics.class_iu, C - 1), RInt(C))

\* A run ended in which a class has no target pixel and accuracy 0, and
\* another class another accuracy and another IoU.
C13_Witness ==
    /\ pc = "done"
    /\ \E c, d \in DOMAIN metrics.class_iu :
          /\ Over(pages, LAMBDA r : r.cls_cnt[c]) = 0
          /\ Over(pages, LAMBDA r : r.cls_cnt[d]) > 0
          /\ metrics.class_pixel_accuracy[c] = RInt(0)
          /\ metrics.class_pixel_accuracy[d] # RInt(0)
          /\ metrics.class_iu[c] # metrics.class_iu[d]

\* The record of the last page agrees with the masks y and pred.
LastPageHeld == pages # << >> /\ completed = fetched

\* The pixels where a class of the set idxs is true in the mask m.
AnyOf(m, idxs) == {p \in 1..Len(m[0]) : \E c \in idxs : m[c][p]}

\* The record rec holds, under the category's name, the counts of the AND
\* and of the OR of the two masks reduced over the classes of the category.
CategoryCounted(rec, category) ==
    LET idxs == {category.classes[i].idx : i \in DOMAIN category.classes}
    IN /\ category.cat \in DOMAIN rec
       /\ rec[category.cat].intersections
             = Cardinality(AnyOf(y, idxs) \cap AnyOf(pred, idxs))
       /\ rec[category.cat].unions
             = Cardinality(AnyOf(y, idxs) \cup AnyOf(pred, idxs))

\* C14: for every accumulated page and every category of the mapping with
\* at least one class, the page's category intersection and union are the
\* counts of the AND and the OR of the target and the prediction, each
\* reduced by OR over exactly the classes of the category.
C14_CategoryStatistics ==
    LastPageHeld =>
        \A k \in DOMAIN class_mapping :
            class_mapping[k].classes # << >> =>
                CategoryCounted(pages[Len(pages)], class_mapping[k])

\* C14 as it holds: the same for the categories "baselines" and "regions";
\* a category of another name, like one without a class, has no statistics
\* in the page's record.
C14_GroundTruthCategoryStatistics ==
    LastPageHeld =>
        \A k \in DOMAIN class_mapping :
            IF /\ class_mapping[k].cat \in {"baselines", "regions"}
               /\ class_mapping[k].classes # << >>
            THEN CategoryCounted(pages[Len(pages)], class_mapping[k])
            ELSE class_mapping[k].cat \notin DOMAIN pages[Len(pages)]

\* A page was accumulated with a pixel that is true for both classes of the
\* category in the target and for one of them in the prediction.
C14_Witness ==
    /\ LastPageHeld
    /\ class_mapping = MappingSwapped
    /\ Len(y[0]) = 2
    /\ y[0][1] /\ y[1][1] /\ pred[0][1] /\ ~pred[1][1]
    /\ ~y[0][2] /\ ~y[1][2] /\ ~pred[0][2] /\ pred[1][2]
    /\ pages[Len(pages)].regions.intersections = 1
    /\ pages[Len(pages)].regions.unions = 2

\* The report ran to its end, or to the exception of its overlap table.
ReportRan == pc = "done" \/ (pc = "failed" /\ error = "KeyError")

\* The positions in out of the class-independent IoU lines of a category.
IoULines(cat) ==
    {i \in DOMAIN out : /\ out[i].kind = "Class-independent IoU"
                         /\ out[i].category = cat}

\* Exactly one class-independent IoU line of the category is in out, and it
\* shows (I + eps) / (U + eps) for the sums of the pages' category counts.
OneIoULine(cat) ==
    LET I == Over(pages, LAMBDA r : r[cat].intersections)
        U == Over(pages, LAMBDA r : r[cat].unions)
    IN /\ Cardinality(IoULines(cat)) = 1
       /\ \A i \in IoULines(cat) : out[i].text = Fmt3(Smoothed(I, U))

\* C15: once the report ran, every category of the mapping with at least
\* one class, whatever its name, has exactly one class-independent IoU line
\* with the value (sum of the pages' category intersections + eps) / (sum of
\* the pages' category unions + eps), and a category without a class has no
\* such line.
C15_CategoryIoUReported ==
    ReportRan =>
        \A k \in DOMAIN class_mapping :
            IF class_mapping[k].classes # << >>
            THEN OneIoULine(class_mapping[k].cat)
            ELSE IoULines(class_mapping[k].cat) = {}

\* C15 as it holds: the line is reported for the categories "baselines" and
\* "regions" that have a class; a category of another name, like one without
\* a class, has no such line.
C15_GroundTruthCategoryIoUReported ==
    ReportRan =>
        \A k \in DOMAIN class_mapping :
            IF /\ class_mapping[k].cat \in {"baselines", "regions"}
               /\ class_mapping[k].classes # << >>
            THEN OneIoULine(class_mapping[k].cat)
            ELSE IoULines(class_mapping[k].cat) = {}

\* A report of two pages whose category counts differ: the regions meet in
\* one pixel of the first page and in none of the second.
C15_Witness ==
    /\ pc = "done"
    /\ class_mapping = MappingSwapped
    /\ Len(pages) = 2
    /\ pages[1].regions.intersections = 1 /\ pages[1].regions.unions = 1
    /\ pages[2].regions.intersections = 0 /\ pages[2].regions.unions = 1
    /\ \E i \in IoULines("regions") :
          out[i].text = Fmt3(Smoothed(1, 2))
    /\ IoULines("baselines") = {}

\* The categories whose pages carry overlap statistics, as records of the
\* category's name and the lists of its class indices and class names.
OverlapCategories ==
    {[cat |-> class_mapping[k].cat,
      idxs |-> [i \in DOMAIN class_mapping[k].classes |->
                   class_mapping[k].classes[i].idx],
      names |-> [i \in DOMAIN class_mapping[k].classes |->
                    class_mapping[k].classes[i].name]] :
        k \in {k \in DOMAIN class_mapping :
                  /\ class_mapping[k].cat \in {"baselines", "regions"}
                  /\ Len(class_mapping[k].classes) >= 2}}

\* The j-th of the classes of idxs other than the r-th, in the list's order.
OtherOf(idxs, r, j) == idxs[IF j < r THEN j ELSE j + 1]

\* The pixels of the last page that are true for class c in the mask m.
On(m, c) == {p \in 1..Len(m[c]) : m[c][p]}

\* The pixels of the last page predicted for a class of idxs other than ci.
RestPredicted(idxs, ci) ==
    UNION {On(pred, idxs[i]) : i \in {i \in DOMAIN idxs : idxs[i] # ci}}

\* C16: for every accumulated page, every category with k >= 2 classes and
\* every class ci of it, the page's overlap intersections and unions of ci
\* are taken between the target of ci and the OR of the predictions of all
\* other classes of the category.
C16_OverlapAgainstRest ==
    LastPageHeld =>
        \A g \in OverlapCategories :
            LET conf_ == pages[Len(pages)][g.cat].confusion
            IN \A r \in DOMAIN g.idxs : \A j \in 1..(Len(g.idxs) - 1) :
                  LET t == On(y, g.idxs[r])
                      rest == RestPredicted(g.idxs, g.idxs[r])
                  IN /\ conf_.intersections[r][j] = Cardinality(t \cap rest)
                     /\ conf_.unions[r][j] = Cardinality(t \cup rest)

\* C16 as it holds: the page's overlap of ci is a row of k - 1 pairs, one
\* for each other class cj of the category in the order of the category's
\* list, taken between the target of ci and the prediction of cj alone.
C16_OverlapAgainstEach ==
    LastPageHeld =>
        \A g \in OverlapCategories :
            LET conf_ == pages[Len(pages)][g.cat].confusion
            IN /\ DOMAIN conf_.intersections = DOMAIN g.idxs
               /\ DOMAIN conf_.unions = DOMAIN g.idxs
               /\ \A r \in DOMAIN g.idxs :
                     /\ DOMAIN conf_.intersections[r] = 1..(Len(g.idxs) - 1)
                     /\ DOMAIN conf_.unions[r] = 1..(Len(g.idxs) - 1)
                     /\ \A j \in 1..(Len(g.idxs) - 1) :
                           LET t == On(y, g.idxs[r])
                               q == On(pred, OtherOf(g.idxs, r, j))
                           IN /\ conf_.intersections[r][j] = Cardinality(t \cap q)
                              /\ conf_.unions[r][j] = Cardinality(t \cup q)

\* A page of a category of three classes was accumulated where the first
\* class's target meets the prediction of the third class and not that of
\* the second.
C16_Witness ==
    /\ LastPageHeld
    /\ class_mapping = MappingThreeRegions
    /\ y[0][1] /\ ~pred[1][1] /\ pred[2][1]
    /\ pages[Len(pages)].regions.confusion.intersections[1] = <<0, 1>>
    /\ pages[Len(pages)].regions.confusion.unions[1] = <<1, 1>>

\* The positions in out of the overlap tables of a category.
OverlapTables(cat) ==
    {i \in DOMAIN out : out[i].kind = "Overlap" /\ out[i].category = cat}

\* What a cell shows of the quotient v: nothing when v is 1, else v to three
\* decimals.
Rendered(v) == IF v = RInt(1) THEN Blank ELSE Fmt3(v)

\* The sum over the pages of the overlap count accumulated in row r for the
\* c-th class of the category's list, c # r: its column there is the place
\* of c among the classes other than r.
PairTotal(g, field, r, c) ==
    Over(pages, LAMBDA rec :
        rec[g.cat].confusion[field][r][IF c < r THEN c ELSE c - 1])

\* Row r of the table t has exactly one cell under the name of the c-th
\* class, and it shows (I + eps) / (U + eps).
CellShows(t, g, r, c, I, U) ==
    LET under == {j \in DOMAIN t[r].cells : t[r].cells[j].column = g.names[c]}
    IN /\ Cardinality(under) = 1
       /\ \A j \in under : t[r].cells[j].text = Rendered(Smoothed(I, U))

\* C17: in the overlap table of a category with at least two classes there
\* is one row per class, and row r has one cell for every other class of the
\* category and none for its own; the cell under the name of class c shows
\* (sum of the pages' pairwise intersections of (r, c) + eps) / (sum of the
\* pages' pairwise unions of (r, c) + eps), where the page's statistic of
\* (r, c) is that of the target of r against the prediction of c.
C17_OverlapTableCells ==
    pc = "done" =>
        \A g \in OverlapCategories :
            /\ Cardinality(OverlapTables(g.cat)) = 1
            /\ \A i \in OverlapTables(g.cat) :
                  LET t == out[i].table
                  IN /\ DOMAIN t = DOMAIN g.idxs
                     /\ \A r \in DOMAIN g.idxs :
                           /\ t[r].Source = g.names[r]
                           /\ Len(t[r].cells) = Len(g.idxs) - 1
                           /\ \A j \in DOMAIN t[r].cells :
                                 t[r].cells[j].column # g.names[r]
                           /\ \A c \in DOMAIN g.idxs \ {r} :
                                 /\ CellShows(t, g, r, c,
                                        PairTotal(g, "intersections", r, c),
                                        PairTotal(g, "unions", r, c))
                                 /\ (Len(pages) = 1 /\ LastPageHeld) =>
                                        CellShows(t, g, r, c,
                                            Cardinality(On(y, g.idxs[r])
                                                \cap On(pred, g.idxs[c])),
                                            Cardinality(On(y, g.idxs[r])
                                                \cup On(pred, g.idxs[c])))

\* A table of three region classes was reported whose first row shows
\* different values under its two columns: eps / (1 + eps) under the second
\* class, which was not predicted where the first is true, and nothing under
\* the third, which was.
C17_Witness ==
    /\ pc = "done"
    /\ class_mapping = MappingThreeRegions
    /\ Len(pages) = 1
    /\ y[0][1] /\ ~pred[1][1] /\ pred[2][1]
    /\ \E i \in OverlapTables("regions") :
          /\ out[i].table[1].Source = "text"
          /\ out[i].table[1].cells[1] =
                 [column |-> "margin", text |-> Fmt3(Smoothed(0, 1))]
          /\ out[i].table[1].cells[2] = [column |-> "graphic", text |-> Blank]

\* The text of the cell of row r for the c-th class of the category, c # r,
\* in the table t.
CellOf(t, r, c) == t[r].cells[IF c < r THEN c ELSE c - 1].text

\* The three region classes carry the masks of the scenario on the one page
\* of the run: the first two have the same, non-empty, target and predicted
\* mask, the third has no pixel in either.
IdenticalPairAndEmptyThird ==
    /\ class_mapping = MappingThreeRegions
    /\ Len(pages) = 1 /\ LastPageHeld
    /\ On(y, 0) # {}
    /\ On(y, 1) = On(y, 0) /\ On(pred, 0) = On(y, 0) /\ On(pred, 1) = On(y, 0)
    /\ On(y, 2) = {} /\ On(pred, 2) = {}

\* C18: a cell of an overlap table is empty exactly when the sum of its
\* pairwise intersections equals the sum of its pairwise unions, both zero
\* included, which is when its IoU is 1; every other cell is a number of
\* three decimals.  With three classes of which the first two have the same
\* non-empty mask and the third is empty, the cell of the first against the
\* second is empty and the cells of the first and of the second against
\* the third are numbers near zero.
C18_BlankCellRule ==
    pc = "done" =>
        \A g \in OverlapCategories : \A i \in OverlapTables(g.cat) :
            LET t == out[i].table
            IN /\ \A r \in DOMAIN g.idxs : \A c \in DOMAIN g.idxs \ {r} :
                     LET I == PairTotal(g, "intersections", r, c)
                         U == PairTotal(g, "unions", r, c)
                     IN /\ Smoothed(I, U) = RInt(1) <=> I = U
                        /\ CellOf(t, r, c) = Blank <=> I = U
                        /\ I # U => /\ CellOf(t, r, c).kind = "num"
                                    /\ CellOf(t, r, c) = Fmt3(Smoothed(I, U))
               /\ IdenticalPairAndEmptyThird =>
                     /\ CellOf(t, 1, 2) = Blank
                     /\ CellOf(t, 1, 3).kind = "num" /\ CellOf(t, 1, 3).milli <= 1
                     /\ CellOf(t, 2, 3).kind = "num" /\ CellOf(t, 2, 3).milli <= 1

\* The table of the scenario was reported, and so was a table with a cell
\* that is empty because neither its row's target nor its column's
\* prediction has a pixel.
C18_Witness ==
    /\ pc = "done"
    /\ IdenticalPairAndEmptyThird
    /\ \E i \in OverlapTables("regions") :
          /\ CellOf(out[i].table, 1, 2) = Blank
          /\ CellOf(out[i].table, 1, 3) = Fmt3(Smoothed(0, 1))
          /\ CellOf(out[i].table, 3, 1) = Fmt3(Smoothed(0, 1))

\* The number of classes of the category named cat, 0 without the category.
ClassCount(cat) ==
    SumSeq([k \in DOMAIN class_mapping |->
               IF class_mapping[k].cat = cat
               THEN Len(class_mapping[k].classes) ELSE 0])

\* C19: once the metrics are computed and the report was attempted, the
\* evaluation has completed with the per-class metrics table, and each of
\* the categories "baselines" and "regions" has an overlap table iff it has
\* at least two classes; a category of one class or none has no table.
C19_OverlapTablesOnlyForTwoClasses ==
    (metrics.computed /\ pc # "report") =>
        /\ pc = "done" /\ error = ""
        /\ \E i \in DOMAIN out : out[i].kind = "Per category metrics"
        /\ \A cat \in {"baselines", "regions"} :
              IF ClassCount(cat) >= 2
              THEN Cardinality(OverlapTables(cat)) = 1
              ELSE OverlapTables(cat) = {}

\* The rows of the table t for the class named n of the category cat.
RowsOf(t, cat, n) ==
    {k \in DOMAIN t : t[k].Category = cat /\ t[k].ClassName = n}

\* C20: the per-class table of a completed run has exactly one row per
\* class of the mapping, and the row of the class named n of a category,
\* with index i in the mapping, shows the pixel accuracy and the IoU of
\* index i, in whatever order the mapping lists its categories and classes.
C20_RowsShowOwnIndex ==
    pc = "done" =>
        /\ Cardinality({i \in DOMAIN out : out[i].kind = "Per category metrics"}) = 1
        /\ \A i \in {i \in DOMAIN out : out[i].kind = "Per category metrics"} :
              LET t == out[i].table
              IN /\ Len(t) = SumSeq([k \in DOMAIN class_mapping |->
                                        Len(class_mapping[k].classes)])
                 /\ \A k \in DOMAIN class_mapping :
                       \A c \in DOMAIN class_mapping[k].classes :
                           LET cls == class_mapping[k].classes[c]
                               rows == RowsOf(t, class_mapping[k].cat, cls.name)
                           IN /\ Cardinality(rows) = 1
                              /\ \A r \in rows :
                                    /\ t[r].PixelAccuracy =
                                           Fmt3(metrics.class_pixel_accuracy[cls.idx])
                                    /\ t[r].IoU = Fmt3(metrics.class_iu[cls.idx])

Complete(rec) ==
    /\ DOMAIN rec = {"intersections", "unions", "corrects", "cls_cnt", "all_n"}
                        \cup {cat \in {"baselines", "regions"} : ClassCount(cat) >= 1}
    /\ \A cat \in {"baselines", "regions"} :
          ClassCount(cat) >= 1 =>
              DOMAIN rec[cat] = {"intersections", "unions"}
                  \cup (IF ClassCount(cat) >= 2 THEN {"confusion"} ELSE {})

\* C22: every step that ends at a boundary between two iterations of the
\* page loop leaves the records accumulated before it as they were and adds
\* at most one record, a complete one, that of the page the step processed;
\* at the boundary the list holds one record for each batch taken and not
\* skipped, so a run stopped there holds exactly the pages processed so far.
C22_AbortBetweenPages ==
    [][pc' = "loop" =>
          /\ Len(pages') \in {Len(pages), Len(pages) + 1}
          /\ SubSeq(pages', 1, Len(pages)) = pages
          /\ Len(pages') = fetched' - warnings'
          /\ \A i \in DOMAIN pages' : Complete(pages'[i])
          /\ Len(pages') = Len(pages) + 1 =>
                /\ fetched' = fetched + 1 /\ warnings' = warnings
                /\ pages'[Len(pages')].all_n = Len(y'[0])
                /\ \A c \in DOMAIN y' :
                      pages'[Len(pages')].cls_cnt[c]
                         = Cardinality({q \in 1..Len(y'[c]) : y'[c][q]})
          /\ Len(pages') = Len(pages) => (pc = "start" \/ warnings' = warnings + 1)
    ]_vars

\* The loop stands at the boundary after two processed pages whose records
\* differ.
C22_Witness ==
    /\ pc = "loop"
    /\ fetched = 2
    /\ Len(pages) = 2
    /\ pages[1] # pages[2]

\* C23: no step changes a record that is in the list of pages, or adds a
\* field to it.
C23_NoMutationAfterAppend ==
    [][\A i \in DOMAIN pages : i \in DOMAIN pages' /\ pages'[i] = pages[i]]_vars

\* C23 as it holds: the records of earlier iterations are never changed;
\* the record the running iteration appended at line 1463 only gains the
\* keys "baselines" and "regions" until the iteration ends, its other
\* fields staying as they were, and is never changed after that.
C23_NoMutationAfterIteration ==
    [][\A i \in DOMAIN pages :
          /\ i \in DOMAIN pages'
          /\ IF i = Len(pages) /\ pc \in {"baselines", "regions"}
             THEN /\ DOMAIN pages[i] \subseteq DOMAIN pages'[i]
                  /\ DOMAIN pages'[i] \ DOMAIN pages[i]
                         \subseteq (IF pc = "baselines" THEN {"baselines"}
                                                        ELSE {"regions"})
                  /\ \A k \in DOMAIN pages[i] : pages'[i][k] = pages[i][k]
             ELSE pages'[i] = pages[i]]_vars

\* The second iteration has appended its record and not yet stored the
\* regions' statistics that the first page's record holds.
C23_Witness ==
    /\ pc = "regions"
    /\ Len(pages) = 2
    /\ "regions" \in DOMAIN pages[1]
    /\ "regions" \notin DOMAIN pages[2]
    /\ "baselines" \in DOMAIN pages[2]

\* The option was converted and accepted.
Accepted == pc \notin {"parse"} /\ error # "BadParameter"

\* C24: when no threshold is given the evaluation binarizes with the
\* threshold of prediction, 0.5, and every accepted threshold lies strictly
\* between 0 and 1.
C24_DefaultIsPrediction ==
    Accepted =>
        /\ ~option.given => threshold = ThresholdPrediction
        /\ threshold > 0 /\ threshold < 100

\* C24 as it holds: when no threshold is given the evaluation binarizes
\* with 0.3, the threshold of training; a given threshold is accepted iff
\* it lies in [0.01, 0.99], so every accepted threshold lies strictly
\* between 0 and 1, and the accepted value is the one the pages are
\* binarized with.
C24_DefaultIsTraining ==
    /\ Accepted =>
          /\ ~option.given => threshold = ThresholdDefault
          /\ option.given => threshold = option.value
          /\ threshold >= ThresholdMin /\ threshold <= ThresholdMax
          /\ threshold > 0 /\ threshold < 100
          /\ LastPageHeld =>
                \A c \in DOMAIN pred : \A q \in DOMAIN pred[c] :
                    pred[c][q] <=> conf[c][q] > threshold
    /\ error = "BadParameter" =>
          /\ option.given
          /\ option.value < ThresholdMin \/ option.value > ThresholdMax

\* A run without the option binarized a page: the confidence 0.5 is above
\* the threshold and the confidence 0.3 is not.
C24_Witness ==
    /\ ~option.given
    /\ LastPageHeld
    /\ conf[0][1] = ThresholdPrediction /\ pred[0][1]
    /\ conf[1][1] = ThresholdDefault /\ ~pred[1][1]

\* The counts I, P, U, K and N of a class are related as intersection,
\* positives, union, corrects and number of pixels are.
ClassRelations(I, P, U, K, N) ==
    /\ 0 <= I /\ I <= P /\ P <= U /\ U <= N
    /\ K = N - U + I

\* Every entry of the overlap matrix I is at most its entry in U.
OverlapRelations(I, U) ==
    \A r \in DOMAIN I : \A j \in DOMAIN I[r] : I[r][j] <= U[r][j]

\* C25: for every accumulated page and every class c,
\* 0 <= intersection <= positives <= union <= total and
\* correct = total - union + intersection; for every category, category
\* intersection <= category union <= total; for every overlap pair,
\* intersection <= union; and the sums over the pages satisfy the same.
C25_CountRelations ==
    pc \in {"loop", "report", "done"} =>
        LET cats == {cat \in {"baselines", "regions"} : ClassCount(cat) >= 1}
            multi == {cat \in {"baselines", "regions"} : ClassCount(cat) >= 2}
        IN /\ \A i \in DOMAIN pages :
                 LET rec == pages[i]
                 IN /\ \A c \in DOMAIN rec.intersections :
                          ClassRelations(rec.intersections[c], rec.cls_cnt[c],
                                         rec.unions[c], rec.corrects[c], rec.all_n)
                    /\ \A cat \in cats :
                          /\ 0 <= rec[cat].intersections
                          /\ rec[cat].intersections <= rec[cat].unions
                          /\ rec[cat].unions <= rec.all_n
                    /\ \A cat \in multi :
                          OverlapRelations(rec[cat].confusion.intersections,
                                           rec[cat].confusion.unions)
           /\ pages # << >> =>
                 /\ \A c \in DOMAIN pages[1].intersections :
                       ClassRelations(Over(pages, LAMBDA r : r.intersections[c]),
                                      Over(pages, LAMBDA r : r.cls_cnt[c]),
                                      Over(pages, LAMBDA r : r.unions[c]),
                                      Over(pages, LAMBDA r : r.corrects[c]),
                                      Over(pages, LAMBDA r : r.all_n))
                 /\ \A cat \in cats :
                       /\ Over(pages, LAMBDA r : r[cat].intersections)
                             <= Over(pages, LAMBDA r : r[cat].unions)
                       /\ Over(pages, LAMBDA r : r[cat].unions)
                             <= Over(pages, LAMBDA r : r.all_n)
                 /\ \A cat \in multi :
                       \A a \in DOMAIN pages[1][cat].confusion.intersections :
                         \A b \in DOMAIN pages[1][cat].confusion.intersections[a] :
                           Over(pages, LAMBDA r : r[cat].confusion.intersections[a][b])
                             <= Over(pages, LAMBDA r : r[cat].confusion.unions[a][b])
           /\ metrics.computed =>
                 \A c \in DOMAIN metrics.intersections :
                     /\ metrics.intersections[c] <= metrics.unions[c]
                     /\ metrics.unions[c] <= metrics.all_n
                     /\ metrics.corrects[c]
                           = metrics.all_n - metrics.unions[c] + metrics.intersections[c]

\* Two pages were summed in which the relations are strict for a class: a
\* page where the class is predicted and not present, and one where it is
\* present and not predicted, beside a class that is right on both.
C25_Witness ==
    /\ pc = "done"
    /\ Len(pages) = 2
    /\ metrics.intersections[0] = 0
    /\ metrics.unions[0] = 2
    /\ metrics.corrects[0] = 0
    /\ Over(pages, LAMBDA r : r.cls_cnt[0]) = 1
    /\ metrics.corrects[1] = 2

\* A mask with one row per class of the model and one cell per pixel of
\* the network's output.
ModelShaped(m) ==
    /\ m # << >>
    /\ Rows(m) = 0..(NumClasses(class_mapping) - 1)
    /\ Width(m) = Width(conf)

\* C26: for every page, whatever the number of classes (one included), the
\* height and the width, the prediction mask and the target mask have one
\* row per class and height * width cells per row, and the page is
\* accumulated: every batch taken is a record of pages or a skipped batch.
C26_MaskShape ==
    conf # << >> =>
        /\ ModelShaped(pred)
        /\ ModelShaped(y)
        /\ fetched = Len(pages) + warnings

\* A page of the single-class model was taken.
C26_SingleClassPage ==
    /\ class_mapping = MappingOneClass
    /\ conf # << >>

\* C26 for the models of two classes: there the masks have the shape.
C26_TwoClassMaskShape ==
    class_mapping = MappingTwoBaselines => C26_MaskShape


\* The expected total of the progress task: the number of batches less one
\* for each skipped batch, and the number of records of pages when the loop
\* is over.
TotalTracksPages ==
    pc \in {"loop", "report", "done"} =>
        /\ batches = test_len - warnings
        /\ fetched = test_len => batches = Len(pages)

\* C27: the expected total starts at the number of batches, loses one for
\* each skipped batch and is changed by nothing else, so it is the number
\* of records of pages when the loop is over; and the completed steps
\* never exceed the expected total.
C27_ExpectedTotal ==
    /\ TotalTracksPages
    /\ pc \in {"loop", "report", "done"} => completed <= batches

\* C27 without its last clause: the expected total alone.
C27_TotalAlone == TotalTracksPages


\* C28: once a page is accumulated and the metrics are computed, the
\* frequency-weighted IoU is a number, also when no pixel of the whole
\* dataset is positive in the ground truth of any class.
C28_FreqIUDefined ==
    (metrics.computed /\ pages # << >>) => IsFinite(metrics.freq_iu)

\* C28 for the datasets that have a positive ground-truth pixel.
C28_DefinedWithPositives ==
    (metrics.computed /\ ClsCntTotal(pages) > 0) => IsFinite(metrics.freq_iu)


\* The line at index i (from 0) is passed over: its baseline is missing,
\* empty or [0, 0].
PassedOver(x) == x.none \/ x.pts = << >> \/ x.pts = <<0, 0>>

\* C29: with the polygonizer returning one polygon per usable baseline, in
\* order, the list o after the insertions has one entry per parsed line,
\* None exactly at the lines whose baseline is missing, empty or [0, 0], and
\* at every other line the polygon of that line's baseline; the assertion
\* on the lengths never fails.
C29_PlaceholdersReinserted ==
    /\ rpc # "failed"
    /\ rpc \in {"write", "done"} =>
          /\ Len(o) = Len(seg_lines)
          /\ \A i \in DOMAIN seg_lines :
                IF PassedOver(seg_lines[i])
                THEN o[i] = None
                ELSE o[i] = PolygonAround(seg_lines[i].pts)

\* The insertions are done for a document whose lines are a usable one, a
\* passed one, a usable one of another baseline: a placeholder goes between
\* two polygons.
C29_Witness ==
    /\ rpc = "write"
    /\ Len(seg_lines) = 3
    /\ ~PassedOver(seg_lines[1])
    /\ PassedOver(seg_lines[2])
    /\ ~PassedOver(seg_lines[3])
    /\ seg_lines[1] # seg_lines[3]


\* The attribute a TextLine holds once it has taken the entry p of the list
\* of polygons.
Taken(p) == IF p.none THEN Empty ELSE Joined(format_type, p)

\* The writer gave every TextLine with a baseline (and, in PageXML, with a
\* Coords element to write to) the entry of o at the line's own position.
OwnEntries ==
    rpc = "done" =>
        \A i \in DOMAIN doc :
            (doc[i].baseline /\ (format_type = "page" => doc[i].shape)) =>
                doc[i].points = Taken(o[i])

\* C30: o holding one entry per TextLine in document order, the ALTO writer
\* and the PageXML writer both give every TextLine that has a baseline the
\* entry at the line's own position, also a PageXML line that comes after
\* a line without Baseline.
C30_WriterAlignment == OwnEntries

\* C30 for ALTO documents alone.
C30_AltoAlignment == format_type = "alto" => OwnEntries

=============================================================================
